---- MODULE Spec2Model ----
(***************************************************************************)
(* RepoScoop: release-label extraction, package grouping and the retry     *)
(* policy of the GitHub provider, as state machines.                       *)
(*                                                                         *)
(* A JavaScript string is a sequence of one-character strings, so that     *)
(* the regular expressions and the split/replace/trim calls of             *)
(* release-grouping.ts are computed character by character.                *)
(***************************************************************************)
EXTENDS Integers, Sequences, FiniteSets, TLC

VARIABLES
    title,        \* extractPackageInfo: the label under extraction
    typed,        \* number of fragments typed into title
    info,         \* extractPackageInfo: the value returned
    xpc,          \* "typing" | "extracted"
    releases,     \* groupReleasesByPackage: the input batch (Release[])
    repoName,     \* groupReleasesByPackage: the display name argument
    grouped,      \* groupReleasesByPackage: the GroupedReleases returned
    gpc,          \* "collecting" | "grouped"
    rpc,          \* retryWithBackoff: "idle" | "attempting" | "waitingRateLimit"
                  \*   | "waitingBackoff" | "succeeded" | "failed"
    retries,      \* retryWithBackoff: the retries argument of the current call
    delay,        \* retryWithBackoff: the delay argument of the current call
    args,         \* the retries and delay the caller passed
    outcomes,     \* what each invocation of fn gave, in order
    sleeps,       \* the setTimeout waits started, in order
    settled,      \* what the promise resolved or rejected with
    now,          \* Date.now()
    request,      \* fetchReleasesPage: [owner, repo, page]
    response,     \* fetchReleasesPage: the Response fetch resolved with
    fetched,      \* fetchReleasesPage: what the promise settled with
    fpc,          \* "idle" | "requested" | "done"
    target,       \* fetchAllReleases: [owner, repo, dev], dev being import.meta.env.DEV
    requested,    \* fetchAllReleases: the pages requested, in order of request
    arrived,      \* fetchAllReleases: [page, result] of each page settled, in order
    all,          \* fetchAllReleases: what the promise settled with
    apc,          \* "idle" | "first" | "rest" | "done"
    view,         \* RepoReleases.svelte: the $state variables of the component
    fetching,     \* RepoReleases.svelte: the pageNumber of the fetchPage awaited
    lastFetch,    \* RepoReleases.svelte: [page, ok] of the fetchPage that returned last
    vpc,          \* "created" | "initialLoad" | "ready" | "loadMore"
    toSort,       \* sortPackageGroups: the caller's array, passed as groups
    sortArgs,     \* sortPackageGroups: the sortBy and sortOrder arguments
    sortedGroups, \* sortPackageGroups: the array returned
    spc           \* "building" | "sorted"

vars == <<title, typed, info, xpc, releases, repoName, grouped, gpc,
          rpc, retries, delay, args, outcomes, sleeps, settled, now,
          request, response, fetched, fpc,
          target, requested, arrived, all, apc,
          view, fetching, lastFetch, vpc,
          toSort, sortArgs, sortedGroups, spc>>

extractVars == <<title, typed, info, xpc>>
groupVars == <<releases, repoName, grouped, gpc>>
retryVars == <<rpc, retries, delay, args, outcomes, sleeps, settled, now>>
pageVars == <<request, response, fetched, fpc>>
allVars == <<target, requested, arrived, all, apc>>
viewVars == <<view, fetching, lastFetch, vpc>>
sortVars == <<toSort, sortArgs, sortedGroups, spc>>

\* what an action of one operation leaves alone: the state of the others
exceptExtract == <<groupVars, retryVars, pageVars, allVars, viewVars, sortVars>>
exceptGroup == <<extractVars, retryVars, pageVars, allVars, viewVars, sortVars>>
exceptRetry == <<extractVars, groupVars, pageVars, allVars, viewVars, sortVars>>
exceptPage == <<extractVars, groupVars, retryVars, allVars, viewVars, sortVars>>
exceptAll == <<extractVars, groupVars, retryVars, pageVars, viewVars, sortVars>>
exceptView == <<extractVars, groupVars, retryVars, pageVars, allVars, sortVars>>
exceptSort == <<extractVars, groupVars, retryVars, pageVars, allVars, viewVars>>

(***************************************************************************)
(* Bounds of the model.                                                    *)
(***************************************************************************)
MaxFrags == 4
MaxBatch == 2
MaxRetries == 3
MaxInvocations == 5
MaxGroups == 3

(***************************************************************************)
(* Characters and character classes of the regular expressions.            *)
(***************************************************************************)
LowerSeq ==
    <<"a","b","c","d","e","f","g","h","i","j","k","l","m",
      "n","o","p","q","r","s","t","u","v","w","x","y","z">>

UpperSeq ==
    <<"A","B","C","D","E","F","G","H","I","J","K","L","M",
      "N","O","P","Q","R","S","T","U","V","W","X","Y","Z">>

Lower == {LowerSeq[i] : i \in 1..26}
Upper == {UpperSeq[i] : i \in 1..26}

\* \d
Digit == {"0","1","2","3","4","5","6","7","8","9"}

\* [a-zA-Z0-9-]
NameChar == Lower \cup Upper \cup Digit \cup {"-"}

\* [a-zA-Z0-9.-]
PreChar == NameChar \cup {"."}

\* \s, and the characters String.prototype.trim removes
WhiteSpace == {" ", "\t", "\n", "\r", "\f"}

\* the characters . does not match
LineTerminator == {"\n", "\r"}

\* [\s-], the separator of title.split
SplitChar == WhiteSpace \cup {"-"}

\* String.prototype.toLowerCase on one character
LowerChar(c) ==
    IF c \in Upper THEN LowerSeq[CHOOSE i \in 1..26 : UpperSeq[i] = c] ELSE c

toLowerCase(s) == [i \in 1..Len(s) |-> LowerChar(s[i])]

\* every character of s[i..j] is in class
AllIn(s, i, j, class) == \A k \in i..j : s[k] \in class

\* every character of s[i..j] is one that . matches
AllDot(s, i, j) == \A k \in i..j : s[k] \notin LineTerminator

\* the last index of the longest run of class characters starting at s[i]
\* (i - 1 when s[i] is not in class): a greedy class+ or class*
RECURSIVE RunEnd(_, _, _)
RunEnd(s, i, class) ==
    IF i <= Len(s) /\ s[i] \in class THEN RunEnd(s, i + 1, class) ELSE i - 1

\* the first index >= i of a character of class, Len(s) + 1 when there is none
RECURSIVE FirstIn(_, _, _)
FirstIn(s, i, class) ==
    IF i > Len(s) \/ s[i] \in class THEN i ELSE FirstIn(s, i + 1, class)

\* String.prototype.trim
trim(s) ==
    LET a == RunEnd(s, 1, WhiteSpace) + 1
        b == CHOOSE j \in 0..Len(s) :
                 /\ AllIn(s, j + 1, Len(s), WhiteSpace)
                 /\ (j = 0 \/ s[j] \notin WhiteSpace)
    IN  IF a > b THEN <<>> ELSE SubSeq(s, a, b)

(***************************************************************************)
(* The literals of release-grouping.ts.                                    *)
(***************************************************************************)
DEFAULT == <<"d","e","f","a","u","l","t">>
VERSION == <<"v","e","r","s","i","o","n">>
REPOSITORY == <<"r","e","p","o","s","i","t","o","r","y">>

(***************************************************************************)
(* PACKAGE_PATTERNS: the five regular expressions, in array order.  A      *)
(* match is [ok, g1, g2, g3]: String.prototype.match's result, with the    *)
(* capture groups; a group that did not take part (undefined) is <<>>.     *)
(***************************************************************************)
NoMatch == [ok |-> FALSE, g1 |-> <<>>, g2 |-> <<>>, g3 |-> <<>>]

Matched(a, b, c) == [ok |-> TRUE, g1 |-> a, g2 |-> b, g3 |-> c]

\* \d+\.\d+\.\d+(?:-[a-zA-Z0-9.-]+)? matched greedily from s[i]: the index
\* of its last character, 0 when it does not match there
SemverEnd(s, i) ==
    LET n == Len(s)
        a == RunEnd(s, i, Digit)
        b == RunEnd(s, a + 2, Digit)
        c == RunEnd(s, b + 2, Digit)
        p == RunEnd(s, c + 2, PreChar)
    IN  IF /\ a >= i /\ a + 1 <= n /\ s[a + 1] = "."
           /\ b >= a + 2 /\ b + 1 <= n /\ s[b + 1] = "."
           /\ c >= b + 2
        THEN IF c + 1 <= n /\ s[c + 1] = "-" /\ p >= c + 2 THEN p ELSE c
        ELSE 0

\* /^@([a-zA-Z0-9-]+)\/([a-zA-Z0-9-]+)@(.*?)$/
MatchScoped(s) ==
    LET n == Len(s)
        i == RunEnd(s, 2, NameChar) + 1
        j == RunEnd(s, i + 1, NameChar) + 1
    IN  IF /\ n >= 1 /\ s[1] = "@"
           /\ i > 2 /\ i <= n /\ s[i] = "/"
           /\ j > i + 1 /\ j <= n /\ s[j] = "@"
           /\ AllDot(s, j + 1, n)
        THEN Matched(SubSeq(s, 2, i - 1), SubSeq(s, i + 1, j - 1), SubSeq(s, j + 1, n))
        ELSE NoMatch

\* /^([a-zA-Z0-9-]+)@(.*?)$/
MatchAt(s) ==
    LET n == Len(s)
        i == RunEnd(s, 1, NameChar) + 1
    IN  IF /\ i > 1 /\ i <= n /\ s[i] = "@"
           /\ AllDot(s, i + 1, n)
        THEN Matched(SubSeq(s, 1, i - 1), SubSeq(s, i + 1, n), <<>>)
        ELSE NoMatch

\* /^v?(\d+\.\d+\.\d+(?:-[a-zA-Z0-9.-]+)?)(?:\s+\(([a-zA-Z0-9-]+)\))?$/
MatchVersionParen(s) ==
    LET n == Len(s)
        st == IF n >= 1 /\ s[1] = "v" THEN 2 ELSE 1
        e == SemverEnd(s, st)
        w == RunEnd(s, e + 1, WhiteSpace)
        q == RunEnd(s, w + 2, NameChar)
    IN  IF e = 0 THEN NoMatch
        ELSE IF e = n THEN Matched(SubSeq(s, st, e), <<>>, <<>>)
        ELSE IF /\ w >= e + 1 /\ w + 1 <= n /\ s[w + 1] = "("
                /\ q >= w + 2 /\ q + 1 = n /\ s[n] = ")"
        THEN Matched(SubSeq(s, st, e), SubSeq(s, w + 2, q), <<>>)
        ELSE NoMatch

\* /^([a-zA-Z0-9-]+)\s+v?(\d+\.\d+\.\d+(?:-[a-zA-Z0-9.-]+)?)$/
MatchNameVersion(s) ==
    LET n == Len(s)
        a == RunEnd(s, 1, NameChar)
        w == RunEnd(s, a + 1, WhiteSpace)
        st == IF w + 1 <= n /\ s[w + 1] = "v" THEN w + 2 ELSE w + 1
    IN  IF a >= 1 /\ w >= a + 1 /\ SemverEnd(s, st) = n /\ st <= n
        THEN Matched(SubSeq(s, 1, a), SubSeq(s, st, n), <<>>)
        ELSE NoMatch

\* /^([a-zA-Z0-9-]+)-(\d+\.\d+\.\d+(?:-[a-zA-Z0-9.-]+)?)$/
\* the first group is greedy: the split is at the last hyphen that works
MatchNameHyphen(s) ==
    LET n == Len(s)
        splits == {i \in 2..n : /\ s[i] = "-"
                                /\ AllIn(s, 1, i - 1, NameChar)
                                /\ i + 1 <= n
                                /\ SemverEnd(s, i + 1) = n}
    IN  IF splits = {} THEN NoMatch
        ELSE LET i == CHOOSE x \in splits : \A y \in splits : y <= x
             IN  Matched(SubSeq(s, 1, i - 1), SubSeq(s, i + 1, n), <<>>)

\* title.match(PACKAGE_PATTERNS[k - 1])
MatchPattern(k, s) ==
    CASE k = 1 -> MatchScoped(s)
      [] k = 2 -> MatchAt(s)
      [] k = 3 -> MatchVersionParen(s)
      [] k = 4 -> MatchNameVersion(s)
      [] k = 5 -> MatchNameHyphen(s)

PACKAGE_PATTERNS == 1..5

(***************************************************************************)
(* extractPackageInfo.                                                     *)
(***************************************************************************)
\* the value null
Null == [present |-> FALSE, packageName |-> <<>>, version |-> <<>>]

Identity(p, v) == [present |-> TRUE, packageName |-> p, version |-> v]

\* which of the five marker strings of the if/else chain each pattern's
\* source text (pattern.toString()) includes
SourceIncludes == <<{1, 2}, {2}, {3}, {4}, {5}>>

\* a chain that tests the markers in the reverse order
BranchOfLastMarker(k) ==
    IF SourceIncludes[k] = {} THEN 0
    ELSE CHOOSE h \in SourceIncludes[k] : \A g \in SourceIncludes[k] : h >= g

\* the branch of the if/else chain taken for pattern k: the first marker
\* its source includes, 0 when none
BranchOf(k) ==
    IF SourceIncludes[k] = {} THEN 0
    ELSE CHOOSE h \in SourceIncludes[k] : \A g \in SourceIncludes[k] : h <= g

\* the object returned by branch h for the match m
BranchResult(h, m) ==
    CASE h = 1 -> Identity(<<"@">> \o m.g1 \o <<"/">> \o m.g2, m.g3)
      [] h = 2 -> Identity(m.g1, m.g2)
      [] h = 3 -> Identity(IF m.g2 = <<>> THEN DEFAULT ELSE m.g2, m.g1)
      [] h = 4 -> Identity(m.g1, m.g2)
      [] h = 5 -> Identity(m.g1, m.g2)

\* the number of (?:\.\d+) groups that make up s from s[i] to its end,
\* -1 when the rest of s is not made of such groups
RECURSIVE DotGroups(_, _)
DotGroups(s, i) ==
    IF i > Len(s) THEN 0
    ELSE IF s[i] = "." /\ RunEnd(s, i + 1, Digit) >= i + 1
    THEN LET r == DotGroups(s, RunEnd(s, i + 1, Digit) + 1)
         IN  IF r < 0 THEN -1 ELSE r + 1
    ELSE -1

\* /^\d+(?:\.\d+){1,3}$/.test(s)
IsNumericDotted(s) ==
    LET a == RunEnd(s, 1, Digit)
    IN  a >= 1 /\ DotGroups(s, a + 1) \in 1..3

\* a replace that finds nothing to remove
StripNothing(t) == t

\* title.replace(/^version\s+|^v\s+/i, '')
StripVersionPrefix(t) ==
    LET n == Len(t)
    IN  IF n >= 8 /\ toLowerCase(SubSeq(t, 1, 7)) = VERSION /\ t[8] \in WhiteSpace
        THEN SubSeq(t, RunEnd(t, 8, WhiteSpace) + 1, n)
        ELSE IF n >= 2 /\ LowerChar(t[1]) = "v" /\ t[2] \in WhiteSpace
        THEN SubSeq(t, RunEnd(t, 2, WhiteSpace) + 1, n)
        ELSE t

\* the code after the loop: no pattern returned
Fallback(t) ==
    LET n == Len(t)
        sep == FirstIn(t, 1, SplitChar)
        first == SubSeq(t, 1, sep - 1)
    IN  IF sep <= n
        THEN IF \/ toLowerCase(first) = VERSION
                \/ toLowerCase(first) = <<"v">>
                \/ IsNumericDotted(first)
             THEN Identity(DEFAULT, trim(StripVersionPrefix(t)))
             ELSE Identity(first, trim(SubSeq(t, Len(first) + 1, n)))
        ELSE Identity(DEFAULT, t)

\* the for loop over PACKAGE_PATTERNS from pattern k on
RECURSIVE TryPatterns(_, _)
TryPatterns(t, k) ==
    IF k \notin PACKAGE_PATTERNS THEN Fallback(t)
    ELSE LET m == MatchPattern(k, t)
         IN  IF m.ok /\ BranchOf(k) # 0
             THEN BranchResult(BranchOf(k), m)
             ELSE TryPatterns(t, k + 1)

\* extractPackageInfo without its first line
extractWithoutGuard(t) == TryPatterns(t, 1)

extractPackageInfo(t) ==
    IF t = <<>> THEN Null ELSE TryPatterns(t, 1)

(***************************************************************************)
(* Array.prototype.sort and String.prototype.localeCompare.                *)
(***************************************************************************)
\* the array <<f[1], ..., f[n]>>, each element computed once
RECURSIVE TupleOf(_, _)
TupleOf(f, n) == IF n = 0 THEN <<>> ELSE Append(TupleOf(f, n - 1), f[n])

\* Array.prototype.sort(cmp): the sort is stable, so with a consistent
\* comparator element i of s lands after exactly the elements that compare
\* lower, and the equal ones that precede it in s
StableSort(s, cmp(_, _)) ==
    LET n == Len(s)
        before(j, i) == cmp(s[j], s[i]) < 0 \/ (cmp(s[j], s[i]) = 0 /\ j < i)
        rank(i) == Cardinality({j \in 1..n : before(j, i)}) + 1
    IN  TupleOf([p \in 1..n |-> s[CHOOSE i \in 1..n : rank(i) = p]], n)

\* the order of the characters in the root collation localeCompare uses:
\* white space, punctuation, digits, letters (a letter's two cases share a
\* primary weight)
CollationOrder ==
    <<"\t", "\n", "\f", "\r", " ", "-", ".", "(", ")", "@", "/",
      "0", "1", "2", "3", "4", "5", "6", "7", "8", "9">> \o LowerSeq

PrimaryWeights ==
    [c \in {CollationOrder[i] : i \in 1..Len(CollationOrder)} |->
        CHOOSE i \in 1..Len(CollationOrder) : CollationOrder[i] = c]

LowerOf ==
    [c \in Upper |-> LowerSeq[CHOOSE i \in 1..26 : UpperSeq[i] = c]]

PrimaryWeight(c) == PrimaryWeights[IF c \in Upper THEN LowerOf[c] ELSE c]

\* the tertiary weight: lower case sorts before upper case
CaseWeight(c) == IF c \in Upper THEN 1 ELSE 0

\* lexicographic comparison of the weights w of a and b: -1, 0 or 1
CompareWeights(a, b, w(_)) ==
    LET m == IF Len(a) < Len(b) THEN Len(a) ELSE Len(b)
        diff == {i \in 1..m : w(a[i]) # w(b[i])}
    IN  IF diff # {}
        THEN LET i == CHOOSE x \in diff : \A y \in diff : x <= y
             IN  IF w(a[i]) < w(b[i]) THEN -1 ELSE 1
        ELSE IF Len(a) < Len(b) THEN -1
        ELSE IF Len(a) > Len(b) THEN 1
        ELSE 0

\* a.localeCompare(b)
localeCompare(a, b) ==
    IF a = b THEN 0
    ELSE IF CompareWeights(a, b, PrimaryWeight) # 0
    THEN CompareWeights(a, b, PrimaryWeight)
    ELSE CompareWeights(a, b, CaseWeight)

(***************************************************************************)
(* groupReleasesByPackage.  A Release is [id, tag_name, name,              *)
(* published_at, created_at]; a timestamp is the number Date.getTime       *)
(* gives for it, and published_at = 0 stands for an absent (falsy) one.    *)
(***************************************************************************)
\* a || b on strings
OrElse(a, b) == IF a # <<>> THEN a ELSE b

\* the name is not empty, not 'default' and not 'version' in any case
IsNonDefaultName(p) ==
    p # <<>> /\ p # DEFAULT /\ toLowerCase(p) # VERSION

\* a callback that looks at the name only when the tag gives no info
PreferTagInfo(tagInfo, nameInfo) ==
    IF ~tagInfo.present THEN nameInfo ELSE tagInfo

\* packageInfo after the if/else of the releases.map callback: the tag's
\* info, or the name's when the tag gives none or gives 'default' and the
\* name gives a package name
PreferNameInfo(tagInfo, nameInfo) ==
    IF ~tagInfo.present THEN nameInfo
    ELSE IF tagInfo.packageName = DEFAULT
            /\ nameInfo.present
            /\ IsNonDefaultName(nameInfo.packageName)
    THEN nameInfo
    ELSE tagInfo

\* if (!packageInfo) packageInfo = { packageName: 'default', ... }
OrDefaultInfo(packageInfo, release) ==
    IF ~packageInfo.present
    THEN Identity(DEFAULT, OrElse(release.tag_name, release.name))
    ELSE packageInfo

\* the packageInfo the releases.map callback settles on
ResolvePackageInfo(release) ==
    OrDefaultInfo(PreferNameInfo(extractPackageInfo(release.tag_name),
                                 extractPackageInfo(release.name)),
                  release)

\* the object the releases.map callback returns for packageInfo
WithPackageInfo(release, packageInfo) ==
    [id           |-> release.id,
     tag_name     |-> release.tag_name,
     name         |-> release.name,
     published_at |-> release.published_at,
     created_at   |-> release.created_at,
     packageName  |-> packageInfo.packageName,
     version      |-> packageInfo.version,
     sortKey      |-> IF release.published_at # 0
                      THEN release.published_at ELSE release.created_at,
     notesExpanded |-> FALSE]

\* the GroupedRelease the releases.map callback returns
ToGroupedRelease(release) == WithPackageInfo(release, ResolvePackageInfo(release))

\* repoGroupName
RepoGroupName(rn) ==
    IF rn # <<>> /\ Len(trim(rn)) > 0 THEN rn ELSE REPOSITORY

\* hasPatterns
HasPatterns(grs) ==
    Cardinality({i \in 1..Len(grs) : IsNonDefaultName(grs[i].packageName)}) >= 1

\* a grouping loop that leaves the release as it is
NormalizeNothing(gr) == gr

\* the release as the grouping loop leaves it: 'version' becomes 'default'
NormalizeVersion(gr) ==
    IF toLowerCase(gr.packageName) = VERSION
    THEN [gr EXCEPT !.packageName = DEFAULT]
    ELSE gr

\* a key that keeps the literal 'default' for the default records
GroupKeyLiteralDefault(hasPatterns, gr, repoGroupName) ==
    IF ~hasPatterns THEN repoGroupName ELSE gr.packageName

\* a key that does not look at hasPatterns
GroupKeyIgnoringPatterns(hasPatterns, gr, repoGroupName) ==
    IF gr.packageName = DEFAULT THEN repoGroupName ELSE gr.packageName

\* groupKey, for a release the loop has normalized
GroupKey(hasPatterns, gr, repoGroupName) ==
    IF ~hasPatterns \/ gr.packageName = DEFAULT
    THEN repoGroupName
    ELSE gr.packageName

\* a loop that sets the key to a new array each time
PushToGroupReplacing(map, key, gr) ==
    IF \E i \in 1..Len(map) : map[i].key = key
    THEN TupleOf([i \in 1..Len(map) |->
                    IF map[i].key = key
                    THEN [key |-> key, rels |-> <<gr>>]
                    ELSE map[i]],
                 Len(map))
    ELSE Append(map, [key |-> key, rels |-> <<gr>>])

\* groupMap after groupMap.get(key).push(gr), a new key going last: the Map
\* is the sequence of its [key, rels] entries in insertion order
PushToGroup(map, key, gr) ==
    IF \E i \in 1..Len(map) : map[i].key = key
    THEN TupleOf([i \in 1..Len(map) |->
                    IF map[i].key = key
                    THEN [key |-> key, rels |-> Append(map[i].rels, gr)]
                    ELSE map[i]],
                 Len(map))
    ELSE Append(map, [key |-> key, rels |-> <<gr>>])

\* the grouping loop over groupedReleases[i..]
RECURSIVE FillGroupMap(_, _, _, _, _)
FillGroupMap(grs, i, map, hasPatterns, repoGroupName) ==
    IF i > Len(grs) THEN map
    ELSE LET gr == NormalizeVersion(grs[i])
         IN  FillGroupMap(grs, i + 1,
                          PushToGroup(map, GroupKey(hasPatterns, gr, repoGroupName), gr),
                          hasPatterns, repoGroupName)

\* a comparator with its operands swapped
OldestFirst(a, b) == a.sortKey - b.sortKey

\* (a, b) => new Date(b.sortKey).getTime() - new Date(a.sortKey).getTime()
NewestFirst(a, b) == b.sortKey - a.sortKey

\* rels.sort(...) of one group
SortReleases(rels) == StableSort(rels, NewestFirst)

\* a group whose latestRelease is the last element
MakeGroupLatestLast(name, rels) ==
    [name          |-> name,
     releases      |-> rels,
     latestRelease |-> rels[Len(rels)],
     releaseCount  |-> Len(rels),
     isExpanded    |-> FALSE]

\* the PackageGroup pushed for one map entry
MakeGroup(name, rels) ==
    [name          |-> name,
     releases      |-> rels,
     latestRelease |-> rels[1],
     releaseCount  |-> Len(rels),
     isExpanded    |-> FALSE]

\* (a, b) => a.name.localeCompare(b.name)
ByName(a, b) == localeCompare(a.name, b.name)

\* releases.map(...)
MapReleases(rs) ==
    TupleOf([i \in 1..Len(rs) |-> ToGroupedRelease(rs[i])], Len(rs))

\* the groups array before its sort: one PackageGroup per map entry, in
\* insertion order, each with its releases sorted
MakeGroups(groupMap) ==
    TupleOf([i \in 1..Len(groupMap) |->
                MakeGroup(groupMap[i].key, SortReleases(groupMap[i].rels))],
            Len(groupMap))

\* groupReleasesByPackage from repoGroupName on
GroupMapped(groupedReleases, repoGroupName) ==
    [groups |-> StableSort(MakeGroups(FillGroupMap(groupedReleases, 1, <<>>,
                                                   HasPatterns(groupedReleases),
                                                   repoGroupName)),
                           ByName),
     totalReleases |-> Len(groupedReleases)]

groupReleasesByPackage(rs, rn) == GroupMapped(MapReleases(rs), RepoGroupName(rn))

(***************************************************************************)
(* Specification SpecExtract: a label is typed fragment by fragment and    *)
(* then handed to extractPackageInfo.                                      *)
(***************************************************************************)
Fragments ==
    { <<"@","s","/">>, <<"a">>, <<"@">>, <<"v">>, <<"1",".","2",".","3">>,
      <<"-","r","c",".","1">>, <<" ">>, <<"-">>, <<"(","a",")">>,
      <<"V","e","r","s","i","o","n">>, <<"1",".","0">> }

GroupIdle ==
    /\ releases = <<>>
    /\ repoName = <<>>
    /\ grouped = [groups |-> <<>>, totalReleases |-> 0]
    /\ gpc = "collecting"

RetryIdle ==
    /\ rpc = "idle"
    /\ retries = 0
    /\ delay = 0
    /\ args = [retries |-> 0, delay |-> 0]
    /\ outcomes = <<>>
    /\ sleeps = <<>>
    /\ settled = [how |-> "pending"]
    /\ now = 0

\* a header the response does not carry: headers.get gives null
NoHeader == [present |-> FALSE, text |-> <<>>]

\* before fetch resolves there is no Response
NoResponse ==
    [status |-> 0, remaining |-> NoHeader, reset |-> NoHeader, limit |-> NoHeader,
     link |-> [present |-> FALSE, last |-> 0], body |-> <<>>]

PageIdle ==
    /\ request = [owner |-> "", repo |-> "", page |-> 0]
    /\ response = NoResponse
    /\ fetched = [settled |-> FALSE]
    /\ fpc = "idle"

ExtractIdle ==
    /\ title = <<>>
    /\ typed = 0
    /\ info = Null
    /\ xpc = "typing"

AllIdle ==
    /\ target = [owner |-> "", repo |-> "", dev |-> FALSE]
    /\ requested = <<>>
    /\ arrived = <<>>
    /\ all = [settled |-> FALSE]
    /\ apc = "idle"

\* the value null, and a value that is not null
Nothing == [present |-> FALSE]

Some(v) == [present |-> TRUE, value |-> v]

\* the component as its script block creates it (lastPage: 0 is null)
ViewIdle ==
    /\ view = [loading             |-> TRUE,
               loadingMore         |-> FALSE,
               error               |-> Nothing,
               releases            |-> <<>>,
               apiResponse         |-> Nothing,
               groupedReleases     |-> Nothing,
               currentPage         |-> 0,
               lastPage            |-> 0,
               rateLimitMessage    |-> Nothing,
               rateLimitHitOnFirst |-> FALSE]
    /\ fetching = 0
    /\ lastFetch = [page |-> 0, ok |-> FALSE]
    /\ vpc = "created"

\* no array has been handed to sortPackageGroups; sortBy and sortOrder
\* have their default values
SortIdle ==
    /\ toSort = <<>>
    /\ sortArgs = [sortBy |-> "name", sortOrder |-> "asc"]
    /\ sortedGroups = Nothing
    /\ spc = "building"

\* no operation has been called yet
Idle ==
    ExtractIdle /\ GroupIdle /\ RetryIdle /\ PageIdle /\ AllIdle /\ ViewIdle /\ SortIdle

InitExtract == Idle

TypeFragment ==
    /\ xpc = "typing"
    /\ typed < MaxFrags
    /\ \E f \in Fragments : title' = title \o f
    /\ typed' = typed + 1
    /\ UNCHANGED <<info, xpc>>
    /\ UNCHANGED exceptExtract

Extract ==
    /\ xpc = "typing"
    /\ info' = extractPackageInfo(title)
    /\ xpc' = "extracted"
    /\ UNCHANGED <<title, typed>>
    /\ UNCHANGED exceptExtract

NextExtract == TypeFragment \/ Extract

SpecExtract == InitExtract /\ [][NextExtract]_vars

(***************************************************************************)
(* Specification SpecGroup: a batch of releases is collected record by     *)
(* record and then grouped under a display name.                           *)
(***************************************************************************)
SEMVER == <<"1",".","2",".","3">>

\* [tag_name, name] pairs: a name found by the tag, by the display name,
\* by neither, 'Version' from either label, no label at all, an empty name
LabelPairs ==
    { <<(<<"a","@">> \o SEMVER), <<>>>>,
      <<(<<"b","-">> \o SEMVER), <<"x">>>>,
      <<(<<"v">> \o SEMVER), (<<"v">> \o SEMVER \o <<" ","(","a",")">>)>>,
      <<(<<"v">> \o SEMVER), (<<"V","e","r","s","i","o","n"," ">> \o SEMVER)>>,
      <<(<<"V","e","r","s","i","o","n"," ">> \o SEMVER), <<>>>>,
      <<<<>>, <<>>>>,
      <<<<"-","x">>, <<>>>> }

\* display names: a plain one, none, a blank one, one that is also a package
\* name of the batch, and the word 'default'
RepoNames == { <<"r","e","p","o">>, <<>>, <<" ">>, <<"a">>, DEFAULT }

\* [published_at, created_at] pairs: published_at absent or present, on
\* either of two days
TimePairs == { <<0, 1>>, <<0, 2>>, <<1, 2>>, <<2, 1>> }

InitGroup == Idle

AddRelease ==
    /\ gpc = "collecting"
    /\ Len(releases) < MaxBatch
    /\ \E lp \in LabelPairs, tp \in TimePairs :
          releases' = Append(releases,
                             [id           |-> Len(releases) + 1,
                              tag_name     |-> lp[1],
                              name         |-> lp[2],
                              published_at |-> tp[1],
                              created_at   |-> tp[2]])
    /\ UNCHANGED <<repoName, grouped, gpc>>
    /\ UNCHANGED exceptGroup

Group ==
    /\ gpc = "collecting"
    /\ \E rn \in RepoNames :
          /\ repoName' = rn
          /\ grouped' = groupReleasesByPackage(releases, rn)
    /\ gpc' = "grouped"
    /\ UNCHANGED releases
    /\ UNCHANGED exceptGroup

NextGroup == AddRelease \/ Group

SpecGroup == InitGroup /\ [][NextGroup]_vars

(***************************************************************************)
(* Properties of groupReleasesByPackage (SpecGroup).                       *)
(***************************************************************************)
\* the ids of the records a group holds
GroupIds(g) == {g.releases[j].id : j \in 1..Len(g.releases)}

\* the groups of the result that carry the name n
GroupsNamed(n) == {i \in 1..Len(grouped.groups) : grouped.groups[i].name = n}

\* the package name record k of the batch resolves to, 'version' read as
\* 'default'
ResolvedName(k) == NormalizeVersion(ToGroupedRelease(releases[k])).packageName

\* the records of the batch that resolve to the name n
IdsResolvedTo(n) == {releases[k].id : k \in {j \in 1..Len(releases) : ResolvedName(j) = n}}

\* the timestamp of a record: published_at, created_at when that is absent
Timestamp(r) == IF r.published_at # 0 THEN r.published_at ELSE r.created_at

RECURSIVE SumReleaseCount(_, _)
SumReleaseCount(groups, i) ==
    IF i > Len(groups) THEN 0
    ELSE groups[i].releaseCount + SumReleaseCount(groups, i + 1)

\* the display name is empty or white space only
IsBlank(rn) == \A i \in 1..Len(rn) : rn[i] \in WhiteSpace

\* C1: every record of the batch is in exactly one group's releases list,
\* exactly once, every listed record is a record of the batch, and the sum
\* of releaseCount over the groups equals totalReleases, which equals the
\* length of the batch.
C1_Completeness ==
    gpc = "grouped" =>
        /\ \A k \in 1..Len(releases) :
              Cardinality({<<i, j>> \in (1..Len(grouped.groups)) \X (1..Len(releases)) :
                              /\ j <= Len(grouped.groups[i].releases)
                              /\ grouped.groups[i].releases[j].id = releases[k].id}) = 1
        /\ \A i \in 1..Len(grouped.groups) :
              \A j \in 1..Len(grouped.groups[i].releases) :
                 LET gr == grouped.groups[i].releases[j]
                 IN  /\ gr.id \in 1..Len(releases)
                     /\ gr.tag_name = releases[gr.id].tag_name
                     /\ gr.name = releases[gr.id].name
                     /\ gr.published_at = releases[gr.id].published_at
                     /\ gr.created_at = releases[gr.id].created_at
        /\ SumReleaseCount(grouped.groups, 1) = grouped.totalReleases
        /\ grouped.totalReleases = Len(releases)

\* C1 witness: a batch with a record that has no label at all and a record
\* with a package name was grouped into two groups.
C1_Witness ==
    /\ gpc = "grouped"
    /\ Len(releases) = 2
    /\ \E k \in 1..Len(releases) : releases[k].tag_name = <<>> /\ releases[k].name = <<>>
    /\ Len(grouped.groups) = 2

\* the shape C2 describes, for the aggregate group name agg and the set
\* names of the package names that get a group of their own
PartialGrouping(agg, names) ==
    /\ \A n \in names :
          /\ Cardinality(GroupsNamed(n)) = 1
          /\ \A i \in GroupsNamed(n) : GroupIds(grouped.groups[i]) = IdsResolvedTo(n)
    /\ (IdsResolvedTo(DEFAULT) # {}) <=> (GroupsNamed(agg) # {})
    /\ Cardinality(GroupsNamed(agg)) <= 1
    /\ \A i \in GroupsNamed(agg) : GroupIds(grouped.groups[i]) = IdsResolvedTo(DEFAULT)
    /\ GroupsNamed(DEFAULT) = {}
    /\ Len(grouped.groups) =
          Cardinality(names) + (IF IdsResolvedTo(DEFAULT) # {} THEN 1 ELSE 0)

\* the resolved names of the batch other than 'default'
NamesOtherThanDefault ==
    {ResolvedName(k) : k \in 1..Len(releases)} \ {DEFAULT}

\* C2 as stated: whenever some record resolves to a package name, for
\* every display name, there is one group per resolved name, the
\* aggregate group carries the display name and holds the default records,
\* and no group is named 'default'.
C2_AsStated ==
    ( /\ gpc = "grouped"
      /\ \E k \in 1..Len(releases) : IsNonDefaultName(ResolvedName(k)) ) =>
        PartialGrouping(repoName, NamesOtherThanDefault)

\* C2 amended: the same, provided the display name is not blank, is not
\* the word 'default' and is not one of the resolved names; a record whose
\* resolved name is empty is in a group of its own, named by the empty
\* string.
C2_PartialGrouping ==
    ( /\ gpc = "grouped"
      /\ \E k \in 1..Len(releases) : IsNonDefaultName(ResolvedName(k))
      /\ ~IsBlank(repoName)
      /\ repoName # DEFAULT
      /\ repoName \notin NamesOtherThanDefault ) =>
        PartialGrouping(repoName, NamesOtherThanDefault)

\* C2 witness: one record with a package name and one default record were
\* grouped under a usable display name.
C2_Witness ==
    /\ gpc = "grouped"
    /\ repoName = <<"r","e","p","o">>
    /\ Len(releases) = 2
    /\ \E k \in 1..Len(releases) : IsNonDefaultName(ResolvedName(k))
    /\ IdsResolvedTo(DEFAULT) # {}
    /\ Len(grouped.groups) = 2

\* no record of the batch resolves to a package name (hasPatterns is false)
NoMeaningfulGrouping ==
    \A k \in 1..Len(releases) : ~IsNonDefaultName(ResolvedName(k))

\* the result C3 describes, the single group being named agg
SingleAggregate(agg) ==
    IF Len(releases) = 0
    THEN grouped.groups = <<>> /\ grouped.totalReleases = 0
    ELSE /\ Len(grouped.groups) = 1
         /\ grouped.groups[1].name = agg
         /\ GroupIds(grouped.groups[1]) = {releases[k].id : k \in 1..Len(releases)}

\* C3 as stated: with no record resolving to a package name, a non-empty
\* batch gives exactly one group, keyed by the supplied display name and
\* holding every record; the empty batch gives no group and a total of 0.
C3_AsStated ==
    (gpc = "grouped" /\ NoMeaningfulGrouping) => SingleAggregate(repoName)

\* C3 amended: the single group is keyed by the supplied display name, or
\* by 'repository' when the display name is empty or white space only.
C3_AllDefault ==
    (gpc = "grouped" /\ NoMeaningfulGrouping) =>
        SingleAggregate(IF IsBlank(repoName) THEN REPOSITORY ELSE repoName)

\* C3 witness: two records, neither with a package name, were grouped
\* under a blank display name.
C3_Witness ==
    /\ gpc = "grouped"
    /\ NoMeaningfulGrouping
    /\ Len(releases) = 2
    /\ repoName = <<" ">>
    /\ Len(grouped.groups) = 1

\* C4: in every group the releases are in non-increasing order of
\* timestamp, and two records of a group with equal timestamps are in the
\* order they have in the batch (ids number the batch).
C4_NewestFirstStable ==
    gpc = "grouped" =>
        \A g \in 1..Len(grouped.groups) :
           LET rels == grouped.groups[g].releases
           IN  \A i, j \in 1..Len(rels) :
                  i < j =>
                     /\ Timestamp(rels[i]) >= Timestamp(rels[j])
                     /\ (Timestamp(rels[i]) = Timestamp(rels[j]) => rels[i].id < rels[j].id)

\* C4 witness: a group whose newer record came later in the batch, its
\* timestamp being created_at for lack of published_at.
C4_Witness ==
    /\ gpc = "grouped"
    /\ \E g \in 1..Len(grouped.groups) :
          LET rels == grouped.groups[g].releases
          IN  /\ Len(rels) = 2
              /\ rels[1].id > rels[2].id
              /\ rels[1].published_at = 0
              /\ Timestamp(rels[1]) > Timestamp(rels[2])

\* C5: every group is non-empty, its releaseCount is the length of its
\* releases, its latestRelease is the first of them, and no record of the
\* group has a later timestamp than latestRelease.
C5_GroupShape ==
    gpc = "grouped" =>
        \A g \in 1..Len(grouped.groups) :
           LET grp == grouped.groups[g]
           IN  /\ Len(grp.releases) >= 1
               /\ grp.releaseCount = Len(grp.releases)
               /\ grp.latestRelease = grp.releases[1]
               /\ \A j \in 1..Len(grp.releases) :
                     Timestamp(grp.latestRelease) >= Timestamp(grp.releases[j])

\* C5 witness: a group of two records with different timestamps.
C5_Witness ==
    /\ gpc = "grouped"
    /\ \E g \in 1..Len(grouped.groups) :
          /\ grouped.groups[g].releaseCount = 2
          /\ Timestamp(grouped.groups[g].releases[1]) > Timestamp(grouped.groups[g].releases[2])

(***************************************************************************)
(* GitHubApiProvider.retryWithBackoff.  An Error is described by what the  *)
(* code reads of its message: whether it includes 'not found', whether it  *)
(* includes 'rate limit exceeded', and the text after 'Resets at': none,   *)
(* a time of day as toLocaleTimeString writes it ("time"), or a full date  *)
(* ("date") of which resetAt is the time value.                            *)
(***************************************************************************)
\* the 404 error of fetchReleasesPage
NotFoundError ==
    [name |-> "NotFound", includesNotFound |-> TRUE, includesRateLimit |-> FALSE,
     resets |-> "none", resetAt |-> 0]

\* any other failure: `GitHub API error: ...`, a network error, a test's error
RemoteError ==
    [name |-> "RemoteError", includesNotFound |-> FALSE, includesRateLimit |-> FALSE,
     resets |-> "none", resetAt |-> 0]

\* the rate-limit error of fetchReleasesPage, its reset written by
\* toLocaleTimeString
RateLimitedAtTime(t) ==
    [name |-> "RateLimited", includesNotFound |-> FALSE, includesRateLimit |-> TRUE,
     resets |-> "time", resetAt |-> t]

\* a rate-limit error whose message ends in a date new Date can read
RateLimitedAtDate(t) ==
    [name |-> "RateLimited", includesNotFound |-> FALSE, includesRateLimit |-> TRUE,
     resets |-> "date", resetAt |-> t]

\* the 1 second buffer added to the wait
ResetBuffer == 1000

\* the longest reset-aware wait
FifteenMinutes == 15 * 60 * 1000

\* a catch block that gives up one retry early
ExhaustedEarly(r) == r <= 1

\* retries === 0
Exhausted(r) == r = 0

\* a catch block without the 'not found' test
IsNotFoundSkipped(e) == FALSE

\* error.message.includes('not found')
IsNotFound(e) == e.includesNotFound

\* new Date(resetMatch[1]).getTime(): a time of day alone is no date, and
\* gives NaN
ResetTime(e) ==
    IF e.resets = "date" THEN [nan |-> FALSE, ms |-> e.resetAt]
    ELSE [nan |-> TRUE, ms |-> 0]

\* a waitTime without the 1 second buffer
WaitTimeUnbuffered(e, t) ==
    [nan |-> ResetTime(e).nan, ms |-> ResetTime(e).ms - t]

\* waitTime; a comparison with NaN is false
WaitTime(e, t) ==
    [nan |-> ResetTime(e).nan, ms |-> ResetTime(e).ms - t + ResetBuffer]

\* the rate-limit branch is taken: the message matches and
\* waitTime > 0 && waitTime < 15 * 60 * 1000
WaitsForReset(e, t) ==
    /\ e.includesRateLimit
    /\ e.resets # "none"
    /\ ~WaitTime(e, t).nan
    /\ WaitTime(e, t).ms > 0
    /\ WaitTime(e, t).ms < FifteenMinutes

\* a recursive call that consumes two retries
NextRetriesTwice(r) == r - 2

\* retries - 1, the argument of the recursive call
NextRetries(r) == r - 1

\* a recursive call that passes delay on as it is
NextDelaySame(d) == d

\* delay * 2, the argument of the recursive call after a backoff
NextDelay(d) == d * 2

\* a catch block that rethrows the error of the first invocation
ThrownFirst(error, at) ==
    IF outcomes # <<>> /\ ~outcomes[1].ok
    THEN [how |-> "rejected", at |-> 1, error |-> outcomes[1].error]
    ELSE [how |-> "rejected", at |-> at, error |-> error]

\* throw error: the promise rejects with the error invocation number at of
\* fn threw, the very object the catch block caught
Thrown(error, at) == [how |-> "rejected", at |-> at, error |-> error]

(***************************************************************************)
(* Specification SpecRetry: one call of retryWithBackoff(fn, retries,      *)
(* delay), fn failing or succeeding at each invocation.                    *)
(***************************************************************************)
RetriesArgs == -1..MaxRetries

Delays == {10, 1000}

\* how far from now the reset of a dated rate-limit error lies
ResetOffsets == {-2000, -500, 5000, 898999, 900000}

ErrorsAt(t) ==
    {NotFoundError, RemoteError, RateLimitedAtTime(t + 5000)}
        \cup {RateLimitedAtDate(t + off) : off \in ResetOffsets}

InitRetry == Idle

\* retryWithBackoff(fn, r, d) is called
Call ==
    /\ rpc = "idle"
    /\ \E r \in RetriesArgs, d \in Delays :
          /\ retries' = r
          /\ delay' = d
          /\ args' = [retries |-> r, delay |-> d]
    /\ rpc' = "attempting"
    /\ UNCHANGED <<outcomes, sleeps, settled, now>>
    /\ UNCHANGED exceptRetry

\* fn() resolves: return await fn()
AttemptSucceeds ==
    /\ rpc = "attempting"
    /\ Len(outcomes) < MaxInvocations
    /\ outcomes' = Append(outcomes, [ok |-> TRUE, at |-> Len(outcomes) + 1])
    /\ settled' = [how |-> "resolved", at |-> Len(outcomes) + 1]
    /\ rpc' = "succeeded"
    /\ UNCHANGED <<retries, delay, args, sleeps, now>>
    /\ UNCHANGED exceptRetry

\* fn() rejects with e: the catch block, up to the throw or the setTimeout
AttemptFails ==
    /\ rpc = "attempting"
    /\ Len(outcomes) < MaxInvocations
    /\ \E e \in ErrorsAt(now) :
          /\ outcomes' = Append(outcomes, [ok |-> FALSE, at |-> Len(outcomes) + 1, error |-> e])
          /\ IF Exhausted(retries) \/ IsNotFound(e)
             THEN /\ settled' = Thrown(e, Len(outcomes) + 1)
                  /\ rpc' = "failed"
                  /\ UNCHANGED sleeps
             ELSE IF WaitsForReset(e, now)
             THEN /\ sleeps' = Append(sleeps, [kind |-> "rateLimit", ms |-> WaitTime(e, now).ms])
                  /\ rpc' = "waitingRateLimit"
                  /\ UNCHANGED settled
             ELSE /\ sleeps' = Append(sleeps, [kind |-> "backoff", ms |-> delay])
                  /\ rpc' = "waitingBackoff"
                  /\ UNCHANGED settled
    /\ UNCHANGED <<retries, delay, args, now>>
    /\ UNCHANGED exceptRetry

\* the rate-limit timer fires: return this.retryWithBackoff(fn, retries - 1, delay)
RateLimitWaitOver ==
    /\ rpc = "waitingRateLimit"
    /\ now' = now + sleeps[Len(sleeps)].ms
    /\ retries' = NextRetries(retries)
    /\ rpc' = "attempting"
    /\ UNCHANGED <<delay, args, outcomes, sleeps, settled>>
    /\ UNCHANGED exceptRetry

\* the backoff timer fires: return this.retryWithBackoff(fn, retries - 1, delay * 2)
BackoffWaitOver ==
    /\ rpc = "waitingBackoff"
    /\ now' = now + sleeps[Len(sleeps)].ms
    /\ retries' = NextRetries(retries)
    /\ delay' = NextDelay(delay)
    /\ rpc' = "attempting"
    /\ UNCHANGED <<args, outcomes, sleeps, settled>>
    /\ UNCHANGED exceptRetry

NextRetry ==
    \/ Call
    \/ AttemptSucceeds
    \/ AttemptFails
    \/ RateLimitWaitOver
    \/ BackoffWaitOver

SpecRetry == InitRetry /\ [][NextRetry]_vars

(***************************************************************************)
(* Properties of retryWithBackoff (SpecRetry).                             *)
(***************************************************************************)
\* invocation k of fn failed with an error of the given name
FailedWith(k, name) == ~outcomes[k].ok /\ outcomes[k].error.name = name

\* invocation k of fn failed with an error other than NotFound
FailedRetryable(k) == ~outcomes[k].ok /\ outcomes[k].error.name # "NotFound"

\* C8: an invocation that fails with NotFound is the last one: the call
\* is rejected with that very error and no wait is started after it, so a
\* NotFound at the first invocation leaves one invocation and no wait,
\* whatever the retries argument.
C8_NotFoundNotRetried ==
    \A k \in 1..Len(outcomes) :
       FailedWith(k, "NotFound") =>
          /\ k = Len(outcomes)
          /\ rpc = "failed"
          /\ settled = [how |-> "rejected", at |-> k, error |-> outcomes[k].error]
          /\ Len(sleeps) = k - 1

\* C8 witness: the first invocation failed with NotFound while three
\* retries were left.
C8_Witness ==
    /\ rpc = "failed"
    /\ args.retries = 3
    /\ Len(outcomes) = 1
    /\ FailedWith(1, "NotFound")
    /\ sleeps = <<>>

\* every invocation so far failed with RemoteError
AlwaysRemoteError == \A k \in 1..Len(outcomes) : FailedWith(k, "RemoteError")

\* C9 as stated: with retries = N >= 1 and an operation that always fails
\* with RemoteError, the operation is invoked exactly N times before the
\* call fails.
C9_AsStated ==
    (rpc = "failed" /\ args.retries >= 1 /\ AlwaysRemoteError) =>
        Len(outcomes) = args.retries

\* C9 amended: the operation is invoked exactly N + 1 times: once, and
\* once more for each of the N retries.
C9_Exhaustion ==
    (rpc = "failed" /\ args.retries >= 1 /\ AlwaysRemoteError) =>
        Len(outcomes) = args.retries + 1

\* C9 witness: the call failed with retries = 3 after RemoteErrors only.
C9_Witness ==
    /\ rpc = "failed"
    /\ args.retries = 3
    /\ AlwaysRemoteError
    /\ Len(outcomes) = 4

\* C10: a success is the last invocation and the call resolves with it,
\* every invocation before it having failed with a retryable error; after
\* a retryable failure with retries left the call is not over; and a call
\* that fails after retryable failures only has invoked fn R + 1 times.
C10_RetryUntilSuccess ==
    /\ \A k \in 1..Len(outcomes) :
          outcomes[k].ok =>
             /\ k = Len(outcomes)
             /\ rpc = "succeeded"
             /\ settled = [how |-> "resolved", at |-> k]
             /\ \A j \in 1..(k - 1) : FailedRetryable(j)
    /\ ( /\ Len(outcomes) >= 1
         /\ FailedRetryable(Len(outcomes))
         /\ Len(outcomes) <= args.retries ) =>
            rpc \in {"waitingBackoff", "waitingRateLimit", "attempting"}
    /\ ( /\ rpc = "failed"
         /\ \A k \in 1..Len(outcomes) : FailedRetryable(k) ) =>
            Len(outcomes) = args.retries + 1

\* C10 witness: with retries = 3, two failures and then a success.
C10_Witness ==
    /\ rpc = "succeeded"
    /\ args.retries = 3
    /\ Len(outcomes) = 3
    /\ FailedRetryable(1)
    /\ FailedRetryable(2)
    /\ settled = [how |-> "resolved", at |-> 3]

(***************************************************************************)
(* Properties of extractPackageInfo (SpecExtract).                         *)
(***************************************************************************)
\* the first pattern of PACKAGE_PATTERNS that matches t, 0 when none does
FirstMatching(t) ==
    IF \E k \in PACKAGE_PATTERNS : MatchPattern(k, t).ok
    THEN CHOOSE k \in PACKAGE_PATTERNS :
            /\ MatchPattern(k, t).ok
            /\ \A j \in PACKAGE_PATTERNS : MatchPattern(j, t).ok => k <= j
    ELSE 0

\* s is name characters only, at least one
IsName(s) == Len(s) >= 1 /\ AllIn(s, 1, Len(s), NameChar)

\* s is MAJOR.MINOR.PATCH with an optional -pre
IsVersionNumber(s) == Len(s) >= 1 /\ SemverEnd(s, 1) = Len(s)

\* t is a, then white space, then b
SpacedApart(t, a, b) ==
    /\ Len(t) > Len(a) + Len(b)
    /\ SubSeq(t, 1, Len(a)) = a
    /\ SubSeq(t, Len(t) - Len(b) + 1, Len(t)) = b
    /\ AllIn(t, Len(a) + 1, Len(t) - Len(b), WhiteSpace)

\* C6: the identity returned for a label is the one of the first matcher,
\* in the order of PACKAGE_PATTERNS, that matches it: the label reads
\* (1) @scope/name, '@', version; (2) name, '@', version; (3) an optional
\* 'v', the version number, and either nothing more (packageName
\* 'default') or white space and the name in parentheses; (4) name, white
\* space, an optional 'v', the version number; (5) name, '-', the version
\* number.
C6_FirstMatcherWins ==
    (xpc = "extracted" /\ title # <<>>) =>
        LET k == FirstMatching(title)
            p == info.packageName
            v == info.version
        IN  /\ k # 0 => info.present
            /\ k = 1 =>
                  /\ title = p \o <<"@">> \o v
                  /\ \E i \in 3..(Len(p) - 1) :
                        /\ p[1] = "@"
                        /\ IsName(SubSeq(p, 2, i - 1))
                        /\ p[i] = "/"
                        /\ IsName(SubSeq(p, i + 1, Len(p)))
            /\ k = 2 => title = p \o <<"@">> \o v /\ IsName(p)
            /\ k = 3 =>
                  /\ IsVersionNumber(v)
                  /\ \/ p = DEFAULT /\ title \in {v, <<"v">> \o v}
                     \/ /\ IsName(p)
                        /\ \/ SpacedApart(title, v, <<"(">> \o p \o <<")">>)
                           \/ SpacedApart(title, <<"v">> \o v, <<"(">> \o p \o <<")">>)
            /\ k = 4 =>
                  /\ IsName(p)
                  /\ IsVersionNumber(v)
                  /\ \/ SpacedApart(title, p, v)
                     \/ SpacedApart(title, p, <<"v">> \o v)
            /\ k = 5 =>
                  /\ IsName(p)
                  /\ IsVersionNumber(v)
                  /\ title = p \o <<"-">> \o v

\* C6 witness: the label @s/a@1.2.3, whose pattern source includes the
\* markers of the first two branches, gave @s/a and 1.2.3.
C6_Witness ==
    /\ xpc = "extracted"
    /\ title = <<"@","s","/","a","@","1",".","2",".","3">>
    /\ info = Identity(<<"@","s","/","a">>, <<"1",".","2",".","3">>)

\* C7 as stated: extractPackageInfo returns an identity for every label,
\* the empty string included.
C7_AsStated == xpc = "extracted" => info.present

\* C7 amended: extractPackageInfo returns an identity for every non-empty
\* label, whether a matcher matches it or not, and null for the empty
\* label.
C7_TotalOnNonEmpty == xpc = "extracted" => (info.present <=> title # <<>>)

\* C7 witness: the empty label gave null.
C7_Witness ==
    /\ xpc = "extracted"
    /\ title = <<>>
    /\ info = Null

\* C11: whenever the call has failed, it is rejected with the error of the
\* most recent invocation of fn, as thrown: after backoff waits, after
\* rate-limit waits, and for NotFound.
C11_LastErrorUnchanged ==
    rpc = "failed" =>
        /\ outcomes # <<>>
        /\ ~outcomes[Len(outcomes)].ok
        /\ settled = [how   |-> "rejected",
                      at    |-> Len(outcomes),
                      error |-> outcomes[Len(outcomes)].error]

\* C11 witness: a rate-limit wait, a backoff wait, and then a failure with
\* no retries left, the three errors being different ones; the call
\* rejected with the third.
C11_Witness ==
    /\ rpc = "failed"
    /\ args.retries = 2
    /\ Len(outcomes) = 3
    /\ Len(sleeps) = 2
    /\ sleeps[1].kind = "rateLimit"
    /\ sleeps[2].kind = "backoff"
    /\ FailedWith(1, "RateLimited")
    /\ FailedWith(2, "RemoteError")
    /\ FailedWith(3, "RateLimited")
    /\ outcomes[3].error # outcomes[1].error
    /\ settled.error = outcomes[3].error

\* the last invocation of fn failed with the rate-limit error of
\* fetchReleasesPage, and the catch block has run
RateLimitedByFetch ==
    /\ outcomes # <<>>
    /\ rpc \in {"failed", "waitingRateLimit", "waitingBackoff"}
    /\ FailedWith(Len(outcomes), "RateLimited")
    /\ outcomes[Len(outcomes)].error.resets = "time"

\* C12 as stated: when fn fails with the rate-limit error fetchReleasesPage
\* produces, its reset strictly in the future and at most 15 minutes away,
\* and retries remain, the wait started is the one until reset + 1 second
\* and not the backoff delay.
C12_AsStated ==
    ( /\ RateLimitedByFetch
      /\ retries >= 1
      /\ outcomes[Len(outcomes)].error.resetAt - now > 0
      /\ outcomes[Len(outcomes)].error.resetAt - now <= FifteenMinutes ) =>
        /\ rpc = "waitingRateLimit"
        /\ sleeps # <<>>
        /\ sleeps[Len(sleeps)] =
              [kind |-> "rateLimit",
               ms   |-> outcomes[Len(outcomes)].error.resetAt - now + ResetBuffer]

\* C12 witness: fn failed with the rate-limit error of fetchReleasesPage,
\* reset 5 s ahead, with three retries left, and the call waits for the
\* backoff delay.
C12_Witness ==
    /\ RateLimitedByFetch
    /\ retries = 3
    /\ outcomes[Len(outcomes)].error.resetAt - now = 5000
    /\ rpc = "waitingBackoff"
    /\ sleeps[Len(sleeps)] = [kind |-> "backoff", ms |-> delay]

(***************************************************************************)
(* GitHubApiProvider.fetchReleasesPage.  A Response is [status, remaining, *)
(* reset, limit, link, body]: the status code, the three x-ratelimit       *)
(* headers, the Link header (whether it is there, and the page number of   *)
(* its rel="last" part, 0 when it has none) and the releases of the JSON   *)
(* body.  A header is [present, text], text a string of digits.            *)
(***************************************************************************)
DigitSeq == <<"0", "1", "2", "3", "4", "5", "6", "7", "8", "9">>

DigitValues == [c \in Digit |-> (CHOOSE i \in 1..10 : DigitSeq[i] = c) - 1]

\* parseInt(s, 10) for a string of digits
RECURSIVE parseInt(_)
parseInt(s) ==
    IF Len(s) = 0 THEN 0
    ELSE parseInt(SubSeq(s, 1, Len(s) - 1)) * 10 + DigitValues[s[Len(s)]]

Header(text) == [present |-> TRUE, text |-> text]

\* headers.get(name) || fallback
HeaderOr(h, fallback) == IF h.present /\ h.text # <<>> THEN h.text ELSE fallback

\* extractRateLimitInfo(response.headers)
extractRateLimitInfo(r) ==
    [limit     |-> parseInt(HeaderOr(r.limit, <<"6", "0">>)),
     remaining |-> parseInt(HeaderOr(r.remaining, <<"0">>)),
     reset     |-> parseInt(HeaderOr(r.reset, <<"0">>))]

\* extractLastPage(response.headers.get('Link'))
extractLastPage(link) ==
    IF ~link.present THEN 1
    ELSE IF link.last # 0 THEN link.last
    ELSE 1

\* response.ok
IsOk(r) == r.status \in 200..299

\* a 403 that is not looked at for its remaining header
IsRateLimitedAny403(r) == r.status = 403

\* response.status === 403 && response.headers.get('x-ratelimit-remaining') === '0'
IsRateLimited(r) ==
    r.status = 403 /\ r.remaining.present /\ r.remaining.text = <<"0">>

\* fetch rejected: a TypeError, which is an Error
NetworkError ==
    [name |-> "NetworkError", includesNotFound |-> FALSE, includesRateLimit |-> FALSE,
     resets |-> "none", resetAt |-> 0]

\* new Error('Failed to fetch releases from GitHub API')
FetchFailedError ==
    [name |-> "FetchFailed", includesNotFound |-> FALSE, includesRateLimit |-> FALSE,
     resets |-> "none", resetAt |-> 0]

\* the promise rejects with error; owner, repo and status are what its
\* message names ("" and 0 when it names none)
Rejected(error, owner, repo, status) ==
    [settled |-> TRUE, ok |-> FALSE, error |-> error,
     owner |-> owner, repo |-> repo, status |-> status]

\* the Error thrown for a response that is not ok
ErrorFor(r, owner, repo) ==
    IF IsRateLimited(r)
    THEN Rejected(RateLimitedAtTime(parseInt(HeaderOr(r.reset, <<"0">>)) * 1000), "", "", 0)
    ELSE IF r.status = 404
    THEN Rejected(NotFoundError, owner, repo, 0)
    ELSE Rejected(RemoteError, "", "", r.status)

\* the ApiResponse returned for a response that is ok
PageOf(r) ==
    [settled  |-> TRUE,
     ok       |-> TRUE,
     releases |-> r.body,
     meta     |-> [rateLimit |-> extractRateLimitInfo(r),
                   lastPage  |-> extractLastPage(r.link)]]

\* fetchReleasesPage once fetch has resolved with the response r
fetchReleasesPage(r, owner, repo) ==
    IF ~IsOk(r) THEN ErrorFor(r, owner, repo) ELSE PageOf(r)

(***************************************************************************)
(* Specification SpecPage: one call of fetchReleasesPage(owner, repo,      *)
(* page), to which fetch answers with a response or a rejection.           *)
(***************************************************************************)
MaxLastPage == 3

Owners == {"clerk", "o"}

Repos == {"javascript", "r"}

Statuses == {200, 304, 403, 404, 500}

RemainingHeaders == {NoHeader, Header(<<"0">>), Header(<<"5", "9">>)}

ResetHeaders == {NoHeader, Header(<<"9", "0">>)}

LimitHeaders == {NoHeader, Header(<<"6", "0">>)}

\* no Link header, one without a rel="last" part, one with it
Links ==
    {[present |-> FALSE, last |-> 0], [present |-> TRUE, last |-> 0]}
        \cup {[present |-> TRUE, last |-> n] : n \in 2..MaxLastPage}

\* the releases of a body, by id
Bodies == {<<>>, <<1>>, <<1, 2>>}

Responses ==
    [status : Statuses, remaining : RemainingHeaders, reset : ResetHeaders,
     limit : LimitHeaders, link : Links, body : Bodies]

InitPage == Idle

\* fetchReleasesPage(owner, repo, page) is called and fetch(url) is issued
FetchPage ==
    /\ fpc = "idle"
    /\ \E o \in Owners, r \in Repos, pg \in 1..MaxLastPage :
          request' = [owner |-> o, repo |-> r, page |-> pg]
    /\ fpc' = "requested"
    /\ UNCHANGED <<response, fetched>>
    /\ UNCHANGED exceptPage

\* fetch resolves with a response: the rest of the try block
ResponseArrives ==
    /\ fpc = "requested"
    /\ \E r \in Responses :
          /\ response' = r
          /\ fetched' = fetchReleasesPage(r, request.owner, request.repo)
    /\ fpc' = "done"
    /\ UNCHANGED request
    /\ UNCHANGED exceptPage

\* fetch rejects with an Error: the catch block rethrows it
FetchRejects ==
    /\ fpc = "requested"
    /\ fetched' = Rejected(NetworkError, "", "", 0)
    /\ fpc' = "done"
    /\ UNCHANGED <<request, response>>
    /\ UNCHANGED exceptPage

\* something that is not an Error is thrown: the catch block's last line
FetchThrowsOther ==
    /\ fpc = "requested"
    /\ fetched' = Rejected(FetchFailedError, "", "", 0)
    /\ fpc' = "done"
    /\ UNCHANGED <<request, response>>
    /\ UNCHANGED exceptPage

NextPage ==
    \/ FetchPage
    \/ ResponseArrives
    \/ FetchRejects
    \/ FetchThrowsOther

SpecPage == InitPage /\ [][NextPage]_vars

NoExample == [present |-> FALSE]

ExampleData ==
    [present |-> TRUE,
     data |-> [settled  |-> TRUE,
               ok       |-> TRUE,
               releases |-> <<91, 92, 93>>,
               meta     |-> [rateLimit  |-> [limit |-> 60, remaining |-> 60, reset |-> 0],
                             lastPage   |-> 3,
                             totalCount |-> 3]]]

loadExampleData(owner, repo) ==
    IF \/ owner = "clerk" /\ repo = "javascript"
       \/ owner = "facebook" /\ repo = "react"
    THEN {ExampleData, NoExample}
    ELSE {NoExample}

\* a loop that starts at page 1
RestPagesFromOne(lastPage) ==
    IF lastPage > 1 THEN TupleOf([i \in 1..lastPage |-> i], lastPage) ELSE <<>>

\* the pages the for loop requests, in order: 2..lastPage
RestPages(lastPage) ==
    IF lastPage > 1
    THEN TupleOf([i \in 1..(lastPage - 1) |-> i + 1], lastPage - 1)
    ELSE <<>>

\* the result page p settled with
ResultOfPage(arr, p) == arr[CHOOSE i \in 1..Len(arr) : arr[i].page = p].result

\* a loop over the responses in the order they arrived
RECURSIVE ReleasesInArrivalOrder(_, _, _)
ReleasesInArrivalOrder(arr, p, lastPage) ==
    IF p > Len(arr) THEN <<>>
    ELSE arr[p].result.releases \o ReleasesInArrivalOrder(arr, p + 1, lastPage)

\* allReleases: the releases of pages p..lastPage, pageResponses being in
\* the order of pagePromises
RECURSIVE ReleasesOfPages(_, _, _)
ReleasesOfPages(arr, p, lastPage) ==
    IF p > lastPage THEN <<>>
    ELSE ResultOfPage(arr, p).releases \o ReleasesOfPages(arr, p + 1, lastPage)

\* a result whose rate limit is that of no page
AllOfFreshMeta(firstPageResponse, allReleases) ==
    [settled  |-> TRUE,
     ok       |-> TRUE,
     releases |-> allReleases,
     meta     |-> [rateLimit  |-> [limit |-> 60, remaining |-> 60, reset |-> 0],
                   lastPage   |-> firstPageResponse.meta.lastPage,
                   totalCount |-> Len(allReleases)]]

\* the ApiResponse fetchAllReleases returns
AllOf(firstPageResponse, allReleases) ==
    [settled  |-> TRUE,
     ok       |-> TRUE,
     releases |-> allReleases,
     meta     |-> [rateLimit  |-> firstPageResponse.meta.rateLimit,
                   lastPage   |-> firstPageResponse.meta.lastPage,
                   totalCount |-> Len(allReleases)]]

\* a catch block that resolves with no release at all
CaughtAsEmpty(rejection, dev, example) ==
    [settled  |-> TRUE,
     ok       |-> TRUE,
     releases |-> <<>>,
     meta     |-> [rateLimit  |-> [limit |-> 60, remaining |-> 0, reset |-> 0],
                   lastPage   |-> 1,
                   totalCount |-> 0]]

\* the catch block: the example data when in development mode and there
\* is some, the original error otherwise
Caught(rejection, dev, example) ==
    IF dev /\ example.present THEN example.data ELSE rejection

\* the pages requested and not yet settled
Pending == {requested[i] : i \in 1..Len(requested)} \ {arrived[i].page : i \in 1..Len(arrived)}

(***************************************************************************)
(* Specification SpecAll: one call of fetchAllReleases(owner, repo), the   *)
(* page responses arriving in any order.                                   *)
(***************************************************************************)
PageBodies(p) == {<<>>, <<10 * p + 1>>, <<10 * p + 2, 10 * p + 1>>}

\* the responses to the request for page p: a success, a rate-limit 403, a
\* 404, a 500; page 1 with any Link header; the x-ratelimit-reset header
\* of page p reads p, so that the snapshots of two pages differ
PageResponses(p) ==
    [status : {200, 403, 404, 500}, remaining : {Header(<<"0">>)},
     reset : {Header(<<DigitSeq[p + 1]>>)},
     limit : {NoHeader},
     link : IF p = 1 THEN Links ELSE {[present |-> TRUE, last |-> 0]},
     body : PageBodies(p)]

InitAll == Idle

\* fetchAllReleases(owner, repo) up to its first await of a page: the
\* example data in development mode, or the request for page 1
FetchAll ==
    /\ apc = "idle"
    /\ \E o \in Owners, r \in Repos, d \in BOOLEAN :
          /\ target' = [owner |-> o, repo |-> r, dev |-> d]
          /\ \E example \in loadExampleData(o, r) :
                IF d /\ example.present
                THEN /\ all' = example.data
                     /\ apc' = "done"
                     /\ UNCHANGED requested
                ELSE /\ requested' = <<1>>
                     /\ apc' = "first"
                     /\ UNCHANGED all
    /\ UNCHANGED arrived
    /\ UNCHANGED exceptAll

\* page 1 settles: the requests for pages 2..lastPage, the result when
\* there is one page only, or the catch block
FirstPageArrives ==
    /\ apc = "first"
    /\ \E r \in PageResponses(1) :
       \E res \in {fetchReleasesPage(r, target.owner, target.repo)} :
          /\ arrived' = <<[page |-> 1, result |-> res]>>
          /\ IF res.ok
             THEN IF res.meta.lastPage > 1
                  THEN /\ requested' = requested \o RestPages(res.meta.lastPage)
                       /\ apc' = "rest"
                       /\ UNCHANGED all
                  ELSE /\ all' = AllOf(res, res.releases)
                       /\ apc' = "done"
                       /\ UNCHANGED requested
             ELSE /\ \E example \in loadExampleData(target.owner, target.repo) :
                        all' = Caught(res, target.dev, example)
                  /\ apc' = "done"
                  /\ UNCHANGED requested
    /\ UNCHANGED target
    /\ UNCHANGED exceptAll

\* one of pages 2..lastPage settles while Promise.all is awaited: the
\* catch block if it failed, the result if it was the last one
RestPageArrives ==
    /\ apc = "rest"
    /\ \E p \in Pending :
       \E r \in PageResponses(p) :
       \E res \in {fetchReleasesPage(r, target.owner, target.repo)} :
          /\ arrived' = Append(arrived, [page |-> p, result |-> res])
          /\ IF ~res.ok
             THEN /\ \E example \in loadExampleData(target.owner, target.repo) :
                        all' = Caught(res, target.dev, example)
                  /\ apc' = "done"
             ELSE IF Pending = {p}
             THEN /\ all' = AllOf(arrived[1].result,
                                  ReleasesOfPages(arrived', 1, arrived[1].result.meta.lastPage))
                  /\ apc' = "done"
             ELSE UNCHANGED <<all, apc>>
    /\ UNCHANGED <<target, requested>>
    /\ UNCHANGED exceptAll

\* a page settles after Promise.all has rejected: nobody awaits it
PageArrivesLate ==
    /\ apc = "done"
    /\ \E p \in Pending :
       \E r \in PageResponses(p) :
          arrived' = Append(arrived,
                            [page |-> p,
                             result |-> fetchReleasesPage(r, target.owner, target.repo)])
    /\ UNCHANGED <<target, requested, all, apc>>
    /\ UNCHANGED exceptAll

NextAll ==
    \/ FetchAll
    \/ FirstPageArrives
    \/ RestPageArrives
    \/ PageArrivesLate

SpecAll == InitAll /\ [][NextAll]_vars

(***************************************************************************)
(* Properties of fetchAllReleases (SpecAll).                               *)
(***************************************************************************)
\* the page that arrived i-th failed with a RemoteError
FailedRemote(i) ==
    ~arrived[i].result.ok /\ arrived[i].result.error.name = "RemoteError"

\* how many times page p was requested
TimesRequested(p) == Cardinality({i \in 1..Len(requested) : requested[i] = p})

\* page 1 has settled, with a page of releases
FirstPageOk == arrived # <<>> /\ arrived[1].page = 1 /\ arrived[1].result.ok

\* C14: page 1 is requested first; a page other than 1 is requested only
\* once page 1 has settled with success; when page 1 fails nothing else is
\* requested; and when it succeeds page 1 and each of pages 2..lastPage
\* (lastPage from page 1's metadata) are requested exactly once, and no
\* other page.
C14_FirstPageFirst ==
    /\ requested # <<>> => requested[1] = 1
    /\ Len(requested) > 1 => FirstPageOk
    /\ (arrived # <<>> /\ ~arrived[1].result.ok) => requested = <<1>>
    /\ FirstPageOk =>
          \A p \in {requested[i] : i \in 1..Len(requested)}
                    \cup 1..arrived[1].result.meta.lastPage :
             TimesRequested(p) =
                (IF p <= arrived[1].result.meta.lastPage \/ p = 1 THEN 1 ELSE 0)
    /\ \A i \in 1..Len(arrived) : TimesRequested(arrived[i].page) = 1

\* C14 witness: page 1 gave lastPage = 3, pages 2 and 3 were requested, and
\* page 3 settled while page 2 is still awaited.
C14_Witness ==
    /\ apc = "rest"
    /\ requested = <<1, 2, 3>>
    /\ Len(arrived) = 2
    /\ arrived[2].page = 3
    /\ Pending = {2}

\* every page requested has settled with a page of releases
EveryPageSucceeded ==
    /\ requested # <<>>
    /\ Pending = {}
    /\ \A i \in 1..Len(arrived) : arrived[i].result.ok

\* the ids of the releases page p gave
IdsOfPage(p) ==
    {ResultOfPage(arrived, p).releases[k] : k \in 1..Len(ResultOfPage(arrived, p).releases)}

\* release a comes before release b in the pages: on an earlier page, or
\* earlier on the same page
BeforeInPages(a, b) ==
    \E p, q \in 1..Len(requested) :
       /\ a \in IdsOfPage(p)
       /\ b \in IdsOfPage(q)
       /\ \/ p < q
          \/ /\ p = q
             /\ \E i, j \in 1..Len(ResultOfPage(arrived, p).releases) :
                   /\ i < j
                   /\ ResultOfPage(arrived, p).releases[i] = a
                   /\ ResultOfPage(arrived, p).releases[j] = b

\* C15: when every page has succeeded the call resolves with the releases
\* of pages 1..lastPage, each exactly once, those of a lower page before
\* those of a higher one and each page's in the page's own order, whatever
\* the order of arrival; and meta.totalCount is their number.
C15_ConcatInPageOrder ==
    (apc = "done" /\ EveryPageSucceeded) =>
        /\ all.ok
        /\ {all.releases[k] : k \in 1..Len(all.releases)} =
              UNION {IdsOfPage(p) : p \in 1..Len(requested)}
        /\ \A i, j \in 1..Len(all.releases) :
              i < j => BeforeInPages(all.releases[i], all.releases[j])
        /\ all.meta.totalCount = Len(all.releases)

\* C15 witness: three pages with releases, page 3 having arrived before
\* page 2, gave the releases of pages 1, 2, 3 in that order.
C15_Witness ==
    /\ apc = "done"
    /\ EveryPageSucceeded
    /\ Len(arrived) = 3
    /\ arrived[2].page = 3
    /\ arrived[3].page = 2
    /\ all.releases = <<11, 22, 21, 32, 31>>

(***************************************************************************)
(* RepoReleases.svelte: fetchPage, initialLoad and loadMore.  The          *)
(* component fetches a page with retryWithBackoff around                   *)
(* fetchReleasesPage, which settles with what the last invocation gave.    *)
(***************************************************************************)
\* the repo prop, the display name handed to groupReleasesByPackage
RepoProp == <<"r">>

\* msg.toLowerCase().includes('rate limit'): of the errors of
\* fetchReleasesPage, the rate-limit one
MentionsRateLimit(e) == e.includesRateLimit

\* a try block that keeps the releases of the last page only
AfterPageReplacing(v, resp) ==
    [v EXCEPT !.lastPage = resp.meta.lastPage,
              !.apiResponse = Some(resp),
              !.releases = resp.releases,
              !.groupedReleases = Some(groupReleasesByPackage(resp.releases, RepoProp))]

\* fetchPage's try block, resp being the page fetched
AfterPage(v, resp) ==
    [v EXCEPT !.lastPage = resp.meta.lastPage,
              !.apiResponse = Some(resp),
              !.releases = v.releases \o resp.releases,
              !.groupedReleases =
                  Some(groupReleasesByPackage(v.releases \o resp.releases, RepoProp))]

\* a catch block that sets error whatever has been fetched
ErrorAlways(v, e) == Some(e)

\* error after a failure that is not a rate limit: set only if there is
\* nothing to show
ErrorAfterFailure(v, e) == IF Len(v.releases) = 0 THEN Some(e) ELSE v.error

\* fetchPage's catch block, e being the error caught
AfterFailure(v, e, pageNumber) ==
    IF MentionsRateLimit(e)
    THEN [v EXCEPT !.rateLimitMessage = Some(e),
                   !.rateLimitHitOnFirst =
                       IF pageNumber = 1 /\ Len(v.releases) = 0 THEN TRUE ELSE @]
    ELSE [v EXCEPT !.error = ErrorAfterFailure(v, e)]

\* the component after fetchPage(pageNumber) got res from retryWithBackoff
AfterFetchPage(v, res, pageNumber) ==
    IF res.ok THEN AfterPage(v, res) ELSE AfterFailure(v, res.error, pageNumber)

\* the Load more button is disabled
LoadMoreDisabled(v) ==
    v.loadingMore \/ (v.lastPage # 0 /\ v.currentPage >= v.lastPage)

\* the template shows the summary and the package groups
Displayed(v) ==
    /\ ~v.loading
    /\ ~v.error.present
    /\ v.groupedReleases.present
    /\ Len(v.releases) # 0

(***************************************************************************)
(* Specification SpecView: the component is mounted, and Load more is      *)
(* clicked whenever it is enabled.                                         *)
(***************************************************************************)
\* a release of the GitHub API, its label being its tag
ReleaseOf(id, tag) ==
    [id |-> id, tag_name |-> tag, name |-> <<>>, published_at |-> id, created_at |-> id]

\* the releases of the body of page p: none, one, two
ViewBodies(p) ==
    {<<>>,
     <<ReleaseOf(10 * p + 1, <<"a", "@">> \o SEMVER)>>,
     <<ReleaseOf(10 * p + 1, <<"v">> \o SEMVER), ReleaseOf(10 * p + 2, <<"b", "-">> \o SEMVER)>>}

\* the responses to the request for page p: a success, a rate-limit 403,
\* a 404, a 500
ViewResponses(p) ==
    [status : {200, 403, 404, 500}, remaining : {Header(<<"0">>)}, reset : {NoHeader},
     limit : {NoHeader}, link : Links, body : ViewBodies(p)]

\* what retryWithBackoff(() => fetchReleasesPage(owner, repo, p)) settles
\* with: the page, or the error of the last invocation
ViewFetches(p) == {fetchReleasesPage(r, "o", "r") : r \in ViewResponses(p)}

InitView == Idle

\* onMount: initialLoad up to its await of fetchPage(1)
Mount ==
    /\ vpc = "created"
    /\ view' = [view EXCEPT !.loading = TRUE,
                            !.error = Nothing,
                            !.rateLimitMessage = Nothing,
                            !.rateLimitHitOnFirst = FALSE,
                            !.releases = <<>>,
                            !.groupedReleases = Nothing,
                            !.currentPage = 0,
                            !.lastPage = 0]
    /\ fetching' = 1
    /\ vpc' = "initialLoad"
    /\ UNCHANGED lastFetch
    /\ UNCHANGED exceptView

\* fetchPage(1) returns to initialLoad, which runs to its end (the loop
\* from 2 to initialPagesToLoad = 1 has no iteration)
InitialPageSettles ==
    /\ vpc = "initialLoad"
    /\ \E res \in ViewFetches(fetching) :
          /\ view' = [AfterFetchPage(view, res, fetching) EXCEPT
                         !.currentPage = IF res.ok THEN 1 ELSE @,
                         !.loading = FALSE]
          /\ lastFetch' = [page |-> fetching, ok |-> res.ok]
    /\ vpc' = "ready"
    /\ UNCHANGED fetching
    /\ UNCHANGED exceptView

\* a click on Load more, which is rendered when loading is false and can
\* be clicked when it is not disabled: loadMore, past its test of
\* loadingMore, up to its await of fetchPage(next), or to its end when the
\* loop breaks at once
LoadMore ==
    /\ ~view.loading
    /\ ~LoadMoreDisabled(view)
    /\ ~view.loadingMore
    /\ IF view.lastPage # 0 /\ view.currentPage >= view.lastPage
       THEN /\ view' = [view EXCEPT !.rateLimitMessage = Nothing]
            /\ UNCHANGED <<fetching, vpc>>
       ELSE /\ view' = [view EXCEPT !.loadingMore = TRUE, !.rateLimitMessage = Nothing]
            /\ fetching' = view.currentPage + 1
            /\ vpc' = "loadMore"
    /\ UNCHANGED lastFetch
    /\ UNCHANGED exceptView

\* fetchPage(next) returns to loadMore, which runs to its end
MorePageSettles ==
    /\ vpc = "loadMore"
    /\ \E res \in ViewFetches(fetching) :
          /\ view' = [AfterFetchPage(view, res, fetching) EXCEPT
                         !.currentPage = IF res.ok THEN fetching ELSE @,
                         !.loadingMore = FALSE]
          /\ lastFetch' = [page |-> fetching, ok |-> res.ok]
    /\ vpc' = "ready"
    /\ UNCHANGED fetching
    /\ UNCHANGED exceptView

NextView ==
    \/ Mount
    \/ InitialPageSettles
    \/ LoadMore
    \/ MorePageSettles

SpecView == InitView /\ [][NextView]_vars

(***************************************************************************)
(* Properties of the release view (SpecView).                              *)
(***************************************************************************)
\* this step is the return of a fetchPage that failed
FetchPageFails ==
    /\ vpc \in {"initialLoad", "loadMore"}
    /\ vpc' = "ready"
    /\ ~lastFetch'.ok

\* this step sets error
ErrorEntered == ~view.error.present /\ view'.error.present

\* a failed fetchPage leaves the releases and their grouping as they were,
\* and what was displayed stays displayed
PartialResultsKept ==
    FetchPageFails =>
        /\ view'.releases = view.releases
        /\ view'.groupedReleases = view.groupedReleases
        /\ Displayed(view) => Displayed(view')

\* C16 as stated: a failed fetch leaves the accumulated releases and their
\* grouped result unchanged and displayed, and error is set only by a
\* failure of the fetch of page 1 with no release accumulated.
C16_AsStated ==
    [][ /\ PartialResultsKept
        /\ ErrorEntered =>
              /\ FetchPageFails
              /\ lastFetch'.page = 1
              /\ Len(view.releases) = 0 ]_vars

\* C16 amended: error is set only by a failed fetch, other than a rate
\* limit, with no release accumulated: the fetch of page 1, or of a later
\* page when the pages before it had no release.
C16_PartialResultsKept ==
    [][ /\ PartialResultsKept
        /\ ErrorEntered =>
              /\ FetchPageFails
              /\ ~MentionsRateLimit(view'.error.value)
              /\ Len(view.releases) = 0
              /\ Len(view'.releases) = 0 ]_vars

\* C16 witness: the fetch of page 2 failed after page 1 gave releases,
\* which are displayed still.
C16_Witness ==
    /\ vpc = "ready"
    /\ lastFetch = [page |-> 2, ok |-> FALSE]
    /\ view.currentPage = 1
    /\ Len(view.releases) = 2
    /\ Displayed(view)

(***************************************************************************)
(* sortPackageGroups.  Arrays are mutable: the memory of a call holds the  *)
(* array passed as groups and the array sortedGroups, and `same` says that *)
(* the two names denote one array.                                         *)
(***************************************************************************)
\* const sortedGroups = groups: a second name for the caller's array
NoSpread(groups) == [groups |-> groups, sortedGroups |-> groups, same |-> TRUE]

\* const sortedGroups = [...groups]: a new array with the same elements
Spread(groups) == [groups |-> groups, sortedGroups |-> groups, same |-> FALSE]

\* the memory after sortedGroups was rearranged in place into items
Rearranged(mem, items) ==
    [mem EXCEPT !.sortedGroups = items,
                !.groups = IF mem.same THEN items ELSE @]

\* (a, b) => a.releaseCount - b.releaseCount
ByCount(a, b) == a.releaseCount - b.releaseCount

\* new Date(r.published_at || r.created_at).getTime()
DateOf(r) == IF r.published_at # 0 THEN r.published_at ELSE r.created_at

\* (a, b) => dateA.getTime() - dateB.getTime()
ByDate(a, b) == DateOf(a.latestRelease) - DateOf(b.latestRelease)

\* the comparator the switch chooses
CompareBy(a, b, sortBy) ==
    CASE sortBy = "name"  -> ByName(a, b)
      [] sortBy = "count" -> ByCount(a, b)
      [] sortBy = "date"  -> ByDate(a, b)

\* Array.prototype.sort with the comparator of the switch
SortedBy(items, sortBy) ==
    CASE sortBy = "name"  -> StableSort(items, ByName)
      [] sortBy = "count" -> StableSort(items, ByCount)
      [] sortBy = "date"  -> StableSort(items, ByDate)

\* Array.prototype.reverse
Reverse(s) == TupleOf([i \in 1..Len(s) |-> s[Len(s) + 1 - i]], Len(s))

\* the switch statement
SortStep(mem, sortBy) == Rearranged(mem, SortedBy(mem.sortedGroups, sortBy))

\* a function without its if (sortOrder === 'desc')
ReverseSkipped(mem, sortOrder) == mem

\* if (sortOrder === 'desc') sortedGroups.reverse()
ReverseStep(mem, sortOrder) ==
    IF sortOrder = "desc" THEN Rearranged(mem, Reverse(mem.sortedGroups)) ELSE mem

\* the memory when sortPackageGroups returns sortedGroups
sortPackageGroups(groups, sortBy, sortOrder) ==
    ReverseStep(SortStep(Spread(groups), sortBy), sortOrder)

(***************************************************************************)
(* Specification SpecSort: an array of package groups is built group by    *)
(* group and then handed to sortPackageGroups.                             *)
(***************************************************************************)
\* group names: localeCompare puts "a" before "B", their code units do not
SortNames == { <<"a">>, <<"B">> }

\* a release of the API with these two times
TimedRelease(id, tp) ==
    [id |-> id, tag_name |-> <<>>, name |-> <<>>,
     published_at |-> tp[1], created_at |-> tp[2]]

\* the releases of a group: one release, or two
SortBatches ==
    {<<TimedRelease(1, tp)>> : tp \in TimePairs}
        \cup {<<TimedRelease(1, <<2, 1>>), TimedRelease(2, <<0, 1>>)>>}

SortBys == {"name", "count", "date"}

SortOrders == {"asc", "desc"}

InitSort == Idle

AddGroup ==
    /\ spc = "building"
    /\ Len(toSort) < MaxGroups
    /\ \E n \in SortNames, rs \in SortBatches :
          toSort' = Append(toSort, MakeGroup(n, SortReleases(MapReleases(rs))))
    /\ UNCHANGED <<sortArgs, sortedGroups, spc>>
    /\ UNCHANGED exceptSort

Sort ==
    /\ spc = "building"
    /\ \E sortBy \in SortBys, sortOrder \in SortOrders :
          \E mem \in {sortPackageGroups(toSort, sortBy, sortOrder)} :
             /\ sortArgs' = [sortBy |-> sortBy, sortOrder |-> sortOrder]
             /\ toSort' = mem.groups
             /\ sortedGroups' = Some([items |-> mem.sortedGroups, same |-> mem.same])
    /\ spc' = "sorted"
    /\ UNCHANGED exceptSort

NextSort == AddGroup \/ Sort

SpecSort == InitSort /\ [][NextSort]_vars

(***************************************************************************)
(* Properties of sortPackageGroups (SpecSort).                             *)
(***************************************************************************)
\* the number of elements of s that equal g
Occurrences(s, g) == Cardinality({i \in 1..Len(s) : s[i] = g})

\* s and t hold the same elements, each as many times
IsPermutation(s, t) ==
    /\ Len(s) = Len(t)
    /\ \A i \in 1..Len(t) : Occurrences(s, t[i]) = Occurrences(t, t[i])

\* C17: whatever sortBy and sortOrder are, the call leaves the array it
\* was given as it was, and returns another array that holds the same
\* groups, each unchanged, in some order.
C17_NonDestructive ==
    [][ (spc = "building" /\ spc' = "sorted") =>
           /\ toSort' = toSort
           /\ ~sortedGroups'.value.same
           /\ IsPermutation(sortedGroups'.value.items, toSort) ]_vars

\* C17 witness: three groups were sorted into another order, and the
\* caller's array still has the order it had.
C17_Witness ==
    /\ spc = "sorted"
    /\ Len(toSort) = 3
    /\ sortedGroups.value.items # toSort
    /\ toSort[1].name = <<"B">>
    /\ toSort[2].name = <<"a">>

\* s is in non-decreasing order of the key of sortBy
NonDecreasing(s, sortBy) ==
    \A i \in 1..(Len(s) - 1) : CompareBy(s[i], s[i + 1], sortBy) <= 0

\* C18: with asc the groups come back in non-decreasing order of the key
\* (name by localeCompare, releaseCount, time of latestRelease with
\* created_at when published_at is missing); with desc they come back as
\* the reverse of what asc returns for the same array.
C18_AscThenReverse ==
    spc = "sorted" =>
        /\ sortArgs.sortOrder = "asc" =>
              NonDecreasing(sortedGroups.value.items, sortArgs.sortBy)
        /\ sortArgs.sortOrder = "desc" =>
              sortedGroups.value.items =
                  Reverse(sortPackageGroups(toSort, sortArgs.sortBy, "asc").sortedGroups)

\* C18 witness: sorted by count, desc, two different groups with the same
\* count came back in the reverse of the order they were given in.
C18_Witness ==
    /\ spc = "sorted"
    /\ sortArgs = [sortBy |-> "count", sortOrder |-> "desc"]
    /\ Len(toSort) = 3
    /\ toSort[1].releaseCount = toSort[2].releaseCount
    /\ toSort[1] # toSort[2]
    /\ toSort[3].releaseCount > toSort[1].releaseCount
    /\ sortedGroups.value.items = <<toSort[3], toSort[2], toSort[1]>>

(***************************************************************************)
(* Specification SpecResolve: a batch whose records differ in their two    *)
(* labels is collected and grouped.                                        *)
(***************************************************************************)
VersionLabel == <<"V","e","r","s","i","o","n"," ">> \o SEMVER

NameWithPackage == <<"v">> \o SEMVER \o <<" ","(","a",")">>

\* [tag_name, name] pairs: the tag gives a package name; gives 'default'
\* with no name, with a name that gives a package, with one that gives
\* 'Version'; the tag is its own version; the tag gives 'Version' with a
\* name that gives a package; no tag with a name that gives 'default',
\* with no name, with a name that gives 'Version'
ResolvePairs ==
    { <<(<<"a","@">> \o SEMVER), <<>>>>,
      <<(<<"v">> \o SEMVER), <<>>>>,
      <<(<<"v">> \o SEMVER), NameWithPackage>>,
      <<(<<"v">> \o SEMVER), VersionLabel>>,
      <<SEMVER, <<>>>>,
      <<VersionLabel, NameWithPackage>>,
      <<<<>>, (<<"v">> \o SEMVER)>>,
      <<<<>>, <<>>>>,
      <<<<>>, VersionLabel>> }

InitResolve == Idle

AddLabelled ==
    /\ gpc = "collecting"
    /\ Len(releases) < MaxBatch
    /\ \E lp \in ResolvePairs :
          releases' = Append(releases,
                             [id           |-> Len(releases) + 1,
                              tag_name     |-> lp[1],
                              name         |-> lp[2],
                              published_at |-> 1,
                              created_at   |-> 1])
    /\ UNCHANGED <<repoName, grouped, gpc>>
    /\ UNCHANGED exceptGroup

NextResolve == AddLabelled \/ Group

SpecResolve == InitResolve /\ [][NextResolve]_vars

(***************************************************************************)
(* Properties of the identity groupReleasesByPackage gives a record        *)
(* (SpecResolve).                                                          *)
(***************************************************************************)
\* the records of the result, whatever their group
GroupedRecords ==
    UNION {{grouped.groups[i].releases[j] : j \in 1..Len(grouped.groups[i].releases)} :
              i \in 1..Len(grouped.groups)}

\* the groups of the result that hold the record of releases[k]
GroupsHolding(k) ==
    {i \in 1..Len(grouped.groups) : releases[k].id \in GroupIds(grouped.groups[i])}

\* the packageName is 'version' in some letter case
IsVersionName(p) == toLowerCase(p) = VERSION

\* the result holds releases[k] with this identity, 'version' read as
\* 'default'
HasIdentity(k, identity) ==
    \E gr \in GroupedRecords :
       /\ gr.id = releases[k].id
       /\ gr.packageName =
             IF IsVersionName(identity.packageName) THEN DEFAULT ELSE identity.packageName
       /\ gr.version = identity.version

\* the chain of the code: with a tag, the tag's identity, but the name's
\* when the tag gives 'default' and the name gives a package name other
\* than 'default' and 'version'; with no tag, the name's identity whatever
\* it is; with no label at all, 'default' with the empty version
ChainIdentity(tagInfo, nameInfo, release) ==
    IF release.tag_name # <<>>
    THEN IF tagInfo.packageName # DEFAULT THEN tagInfo
         ELSE IF release.name # <<>>
                 /\ nameInfo.packageName \notin {<<>>, DEFAULT}
                 /\ ~IsVersionName(nameInfo.packageName)
         THEN nameInfo
         ELSE tagInfo
    ELSE IF release.name # <<>> THEN nameInfo
    ELSE Identity(DEFAULT, <<>>)

\* C19 as stated: every record gets the tag's identity unless its
\* packageName is 'default', else the name's unless 'default', else
\* 'default' with the tag label (the display name if there is no tag) as
\* its version.
C19_AsStated ==
    gpc = "grouped" =>
        \A k \in 1..Len(releases) :
           LET tagInfo == extractPackageInfo(releases[k].tag_name)
               nameInfo == extractPackageInfo(releases[k].name)
           IN  HasIdentity(k,
                   IF tagInfo.present /\ tagInfo.packageName # DEFAULT THEN tagInfo
                   ELSE IF nameInfo.present /\ nameInfo.packageName # DEFAULT THEN nameInfo
                   ELSE Identity(DEFAULT, OrElse(releases[k].tag_name, releases[k].name)))

\* C19 amended: a record with a tag gets the tag's identity, or the
\* name's when the tag gives 'default' and the name gives a package name
\* other than 'default' and 'version'; the version kept with 'default' is
\* the one extracted from the tag.  A record with no tag gets the identity
\* extracted from its name, and 'default' with an empty version when it
\* has no name either.
C19_ResolutionChain ==
    gpc = "grouped" =>
        \A k \in 1..Len(releases) :
           HasIdentity(k, ChainIdentity(extractPackageInfo(releases[k].tag_name),
                                        extractPackageInfo(releases[k].name),
                                        releases[k]))

\* C19 witness: of two records with the tag v1.2.3, the one named
\* 'v1.2.3 (a)' got the package a and the one with no name got 'default'
\* with the version 1.2.3.
C19_Witness ==
    /\ gpc = "grouped"
    /\ Len(releases) = 2
    /\ releases[1].tag_name = <<"v">> \o SEMVER
    /\ releases[1].name = NameWithPackage
    /\ releases[2].tag_name = <<"v">> \o SEMVER
    /\ releases[2].name = <<>>
    /\ HasIdentity(1, Identity(<<"a">>, SEMVER))
    /\ HasIdentity(2, Identity(DEFAULT, SEMVER))

\* the tag of releases[k] gives a packageName that is 'version'
TagGivesVersion(k) ==
    /\ releases[k].tag_name # <<>>
    /\ IsVersionName(extractPackageInfo(releases[k].tag_name).packageName)

\* the tag's info with 'default' for its packageName
AsDefault(tagInfo) == Identity(DEFAULT, tagInfo.version)

\* no record of the batch has a package name of its own
NoneMeaningful ==
    \A k \in 1..Len(releases) : ~IsNonDefaultName(ResolvePackageInfo(releases[k]).packageName)

\* C20 as stated: a record whose tag gives 'version' gets the identity it
\* would get had its tag given 'default', the retry against the name
\* included.
C20_AsStated ==
    gpc = "grouped" =>
        \A k \in 1..Len(releases) :
           TagGivesVersion(k) =>
              HasIdentity(k, PreferNameInfo(AsDefault(extractPackageInfo(releases[k].tag_name)),
                                            extractPackageInfo(releases[k].name)))

\* C20 amended: a record whose tag gives 'version' in any letter case
\* keeps the tag's version, gets the packageName 'default' and goes to
\* the group of the display name, whatever its own name gives: there is no
\* retry against the name for it.  A name that gives 'version' is never
\* preferred to a tag that gives 'default'.  Records that resolve to
\* 'version' do not make the grouping meaningful, and no group is named
\* after them.
C20_VersionIsDefault ==
    gpc = "grouped" =>
        /\ \A k \in 1..Len(releases) :
              /\ TagGivesVersion(k) =>
                    /\ HasIdentity(k, AsDefault(extractPackageInfo(releases[k].tag_name)))
                    /\ \A i \in GroupsHolding(k) :
                          grouped.groups[i].name = RepoGroupName(repoName)
              /\ IsVersionName(ResolvePackageInfo(releases[k]).packageName) =>
                    \A i \in GroupsHolding(k) :
                       grouped.groups[i].name = RepoGroupName(repoName)
        /\ \A gr \in GroupedRecords : ~IsVersionName(gr.packageName)
        /\ NoneMeaningful => Len(grouped.groups) <= 1
        /\ \A i \in 1..Len(grouped.groups) :
              IsVersionName(grouped.groups[i].name) =>
                 grouped.groups[i].name = RepoGroupName(repoName)

\* C20 witness: a record tagged 'Version 1.2.3' and named 'v1.2.3 (a)' is
\* in the group of the display name as 'default', next to the group a of
\* another record.
C20_Witness ==
    /\ gpc = "grouped"
    /\ Len(releases) = 2
    /\ releases[1].tag_name = VersionLabel
    /\ releases[1].name = NameWithPackage
    /\ HasIdentity(1, Identity(DEFAULT, SEMVER))
    /\ Len(grouped.groups) = 2
    /\ \E i \in GroupsHolding(1) : grouped.groups[i].name = RepoGroupName(repoName)
    /\ \E i \in GroupsHolding(2) : grouped.groups[i].name = <<"a">>

(***************************************************************************)
(* Properties of the fallback of extractPackageInfo (SpecExtract).         *)
(***************************************************************************)
\* parts[0] of t.split(/[\s-]/)
FirstToken(t) == SubSeq(t, 1, FirstIn(t, 1, SplitChar) - 1)

\* 'version' or 'v' in any letter case
IsVersionWord(w) == toLowerCase(w) \in {VERSION, <<"v">>}

\* no pattern matches the label, which splits into two parts or more, the
\* first of them 'version', 'v' or digits with one to three .digits groups
StartsWithMarker(t) ==
    /\ t # <<>>
    /\ FirstMatching(t) = 0
    /\ FirstIn(t, 1, SplitChar) <= Len(t)
    /\ IsVersionWord(FirstToken(t)) \/ IsNumericDotted(FirstToken(t))

\* the white space trimmed off some part of t that begins after its first
\* n characters
TrimmedRests(t, n) == {trim(SubSeq(t, i, Len(t))) : i \in (n + 1)..(Len(t) + 1)}

\* C21 as stated: for such a label the result is 'default' with the label
\* less its marker as the version, whether a space or a hyphen follows the
\* marker.
C21_AsStated ==
    (xpc = "extracted" /\ StartsWithMarker(title)) =>
        /\ info.present
        /\ info.packageName = DEFAULT
        /\ info.version \in TrimmedRests(title, Len(FirstToken(title)))

\* C21 amended: for such a label the result is 'default'; the version is
\* the label less the marker and the white space after it when the marker
\* is 'version' or 'v' and white space follows it, and the whole label,
\* marker included, when a hyphen follows the marker or the marker is a
\* number; either way white space at both ends is trimmed off.
C21_MarkerStripped ==
    (xpc = "extracted" /\ StartsWithMarker(title)) =>
        /\ info.present
        /\ info.packageName = DEFAULT
        /\ info.version =
              IF /\ IsVersionWord(FirstToken(title))
                 /\ title[Len(FirstToken(title)) + 1] \in WhiteSpace
              THEN trim(SubSeq(title, Len(FirstToken(title)) + 1, Len(title)))
              ELSE trim(title)

\* C21 witness: 'Version 1.0' gave 'default' and 1.0.
C21_Witness ==
    /\ xpc = "extracted"
    /\ title = <<"V","e","r","s","i","o","n"," ","1",".","0">>
    /\ StartsWithMarker(title)
    /\ info = Identity(DEFAULT, <<"1",".","0">>)

(***************************************************************************)
(* Properties of the waits of retryWithBackoff (SpecRetry).                *)
(***************************************************************************)
\* fn has just failed with a rate-limit error whose reset new Date can
\* read, and a wait was started
DatedRateLimitWait ==
    /\ rpc \in {"waitingRateLimit", "waitingBackoff"}
    /\ FailedWith(Len(outcomes), "RateLimited")
    /\ outcomes[Len(outcomes)].error.resets = "date"

\* how far ahead of now the reset of the last error lies
ResetAhead == outcomes[Len(outcomes)].error.resetAt - now

RECURSIVE Pow2(_)
Pow2(n) == IF n = 0 THEN 1 ELSE 2 * Pow2(n - 1)

\* the number of backoff sleeps among the first n sleeps
BackoffsAmong(n) == Cardinality({i \in 1..n : sleeps[i].kind = "backoff"})

\* the number of sleeps that are over
SleepsOver ==
    IF rpc \in {"waitingRateLimit", "waitingBackoff"} THEN Len(sleeps) - 1 ELSE Len(sleeps)

\* C23: every invocation but the last one failed and was followed by one
\* sleep, so fn is never invoked again without a sleep in between; a
\* failure that is not a rate-limit wait is followed by a sleep of the
\* current delay, the k-th such sleep lasting d * 2^(k-1) for the initial
\* delay d; after each sleep one retry is consumed, and after each backoff
\* sleep the delay is doubled.
C23_BackoffDoubles ==
    rpc # "idle" =>
        /\ Len(sleeps) =
              IF rpc \in {"succeeded", "failed"} THEN Len(outcomes) - 1 ELSE Len(outcomes)
        /\ \A i \in 1..Len(sleeps) :
              /\ FailedRetryable(i)
              /\ sleeps[i].kind = "rateLimit" => FailedWith(i, "RateLimited")
              /\ sleeps[i].kind = "backoff" =>
                    sleeps[i].ms = args.delay * Pow2(BackoffsAmong(i - 1))
        /\ delay = args.delay * Pow2(BackoffsAmong(SleepsOver))
        /\ retries = args.retries - SleepsOver

\* C23 witness: with the initial delay 10, three failures in a row were
\* followed by sleeps of 10, 20 and 40, and fn is invoked a fourth time
\* with the delay 80.
C23_Witness ==
    /\ rpc = "attempting"
    /\ args.delay = 10
    /\ Len(outcomes) = 3
    /\ sleeps = <<[kind |-> "backoff", ms |-> 10],
                  [kind |-> "backoff", ms |-> 20],
                  [kind |-> "backoff", ms |-> 40]>>
    /\ delay = 80

(***************************************************************************)
(* Properties of the metadata of fetchAllReleases (SpecAll).               *)
(***************************************************************************)
\* the call resolved with the releases of two pages or more
ResolvedFromPages ==
    /\ apc = "done"
    /\ EveryPageSucceeded
    /\ Len(arrived) >= 2

\* C24 as stated: the rate limit of the result is that of the page
\* response received last.
C24_AsStated ==
    ResolvedFromPages =>
        all.meta.rateLimit = arrived[Len(arrived)].result.meta.rateLimit

\* C24 amended: the rate limit of the result is that of the response to
\* page 1, the first one received, and lastPage is the one page 1 gave.
C24_FirstPageSnapshot ==
    ResolvedFromPages =>
        /\ arrived[1].page = 1
        /\ all.meta.rateLimit = arrived[1].result.meta.rateLimit
        /\ all.meta.lastPage = arrived[1].result.meta.lastPage

\* C24 witness: three pages, page 2 received last; the result carries the
\* reset of page 1.
C24_Witness ==
    /\ ResolvedFromPages
    /\ Len(arrived) = 3
    /\ arrived[3].page = 2
    /\ arrived[3].result.meta.rateLimit.reset = 2
    /\ all.meta.rateLimit.reset = 1

(***************************************************************************)
(* Properties of the pagination state of the release view (SpecView).      *)
(***************************************************************************)
\* this step is the return of a fetchPage that succeeded
FetchPageSucceeds ==
    /\ vpc \in {"initialLoad", "loadMore"}
    /\ vpc' = "ready"
    /\ lastFetch'.ok

\* the larger of two numbers
Max(a, b) == IF a >= b THEN a ELSE b

\* C25 as stated: after each successful fetch the lastPage the view keeps
\* is the highest lastPage any response has reported so far (0 standing
\* for none yet), so it never decreases.
C25_AsStated ==
    [][ FetchPageSucceeds =>
           view'.lastPage = Max(view.lastPage, view'.apiResponse.value.meta.lastPage) ]_vars

\* C25 witness: page 1 reported a last page of 2 or more, the response to
\* page 2 carried no rel="last" link, and the view shows page 2 of 1.
C25_Witness ==
    /\ vpc = "ready"
    /\ lastFetch = [page |-> 2, ok |-> TRUE]
    /\ view.currentPage = 2
    /\ view.lastPage = 1

(***************************************************************************)
(* Properties of the failures of fetchAllReleases (SpecAll).               *)
(***************************************************************************)
\* some page settled with a rejection
SomePageFailed == \E i \in 1..Len(arrived) : ~arrived[i].result.ok

\* the first page, in the order of arrival, that settled with a rejection
FirstFailure ==
    CHOOSE i \in 1..Len(arrived) :
       /\ ~arrived[i].result.ok
       /\ \A j \in 1..(i - 1) : arrived[j].result.ok

\* the results loadExampleData can give for the target
ExamplesForTarget ==
    {e.data : e \in {x \in loadExampleData(target.owner, target.repo) : x.present}}

\* C26 as stated: a page of fetchAllReleases that failed with a
\* RemoteError is requested again, so the call is not rejected with the
\* RemoteError of a page that was requested once.
C26_AsStated ==
    (apc = "done" /\ SomePageFailed /\ FailedRemote(FirstFailure)) =>
        \/ all.ok
        \/ TimesRequested(arrived[FirstFailure].page) >= 2

\* C26 amended: fetchAllReleases requests no page twice, and the first
\* failure of a page, whatever the error, ends the call at once: with the
\* error of that page or, in development mode, with the example data of
\* the repository.
C26_NoRetryInFetchAll ==
    /\ \A p \in 1..MaxLastPage : TimesRequested(p) <= 1
    /\ (apc # "idle" /\ SomePageFailed) =>
          /\ apc = "done"
          /\ \/ all = arrived[FirstFailure].result
             \/ target.dev /\ all \in ExamplesForTarget

\* C26 witness: page 2 of 3, requested once, failed with a 500 and the
\* call was rejected with that error.
C26_Witness ==
    /\ apc = "done"
    /\ requested = <<1, 2, 3>>
    /\ SomePageFailed
    /\ arrived[FirstFailure].page = 2
    /\ FailedRemote(FirstFailure)
    /\ all = arrived[FirstFailure].result
    /\ all.status = 500

(***************************************************************************)
(* Properties of the error state of the release view (SpecView).           *)
(***************************************************************************)
\* C27 as stated: whenever the view holds a release, error is null.
C27_AsStated == Len(view.releases) # 0 => ~view.error.present

\* C27 witness: the first fetch of page 1 failed, Load more fetched page 1
\* again, and the view holds its two releases under the error of the
\* first fetch, which hides them.
C27_Witness ==
    /\ vpc = "ready"
    /\ lastFetch = [page |-> 1, ok |-> TRUE]
    /\ view.currentPage = 1
    /\ Len(view.releases) = 2
    /\ view.groupedReleases.present
    /\ view.error.present
    /\ ~Displayed(view)

(***************************************************************************)
(* Properties of the order of the page fetches of the release view         *)
(* (SpecView).  The releases of page p have the ids 10 * p + 1 and         *)
(* 10 * p + 2.                                                             *)
(***************************************************************************)
\* a fetchPage is awaited
InFlight == vpc \in {"initialLoad", "loadMore"}

\* a click on Load more would start a fetch
ClickAccepted == ~view.loading /\ ~LoadMoreDisabled(view) /\ ~view.loadingMore

\* the page a release came from
PageOfRelease(r) == r.id \div 10

\* every release of rs came from page p
AllFromPage(rs, p) == \A k \in 1..Len(rs) : PageOfRelease(rs[k]) = p

\* the releases held are those of pages 1..currentPage at most, in page
\* order, none of them twice
InPageOrderOnce ==
    /\ \A k \in 1..Len(view.releases) :
          PageOfRelease(view.releases[k]) \in 1..view.currentPage
    /\ \A j, k \in 1..Len(view.releases) :
          j < k => view.releases[j].id < view.releases[k].id

\* C28: no click on Load more is accepted while a fetch is awaited, so at
\* most one fetch is in flight; the page fetched is currentPage + 1, and
\* it is requested only while lastPage is unknown or currentPage is below
\* it; a fetch that succeeds appends the releases of that page and moves
\* currentPage to it, one that fails changes neither; so the releases held
\* are those of pages 1..currentPage, in order, each page once.
C28_OnePageAtATime ==
    /\ [](ClickAccepted => ~InFlight)
    /\ [](InFlight => fetching = view.currentPage + 1)
    /\ []InPageOrderOnce
    /\ [][ (~InFlight /\ InFlight') =>
              /\ fetching' = view'.currentPage + 1
              /\ view'.lastPage = 0 \/ view'.currentPage < view'.lastPage ]_vars
    /\ [][ FetchPageSucceeds =>
              /\ view'.currentPage = fetching
              /\ view'.releases = view.releases \o view'.apiResponse.value.releases
              /\ AllFromPage(view'.apiResponse.value.releases, fetching) ]_vars
    /\ [][ FetchPageFails =>
              /\ view'.currentPage = view.currentPage
              /\ view'.releases = view.releases ]_vars

\* C28 witness: pages 1 and 2 gave three releases, and page 3 is being
\* fetched.
C28_Witness ==
    /\ vpc = "loadMore"
    /\ fetching = 3
    /\ view.currentPage = 2
    /\ Len(view.releases) = 3
    /\ view.releases[1].id = 11
    /\ view.releases[2].id = 12
    /\ view.releases[3].id = 21

(***************************************************************************)
(* Properties of the group names of groupReleasesByPackage (SpecGroup).    *)
(***************************************************************************)
\* C29 as stated: every record whose resolved name is empty, 'default' or
\* 'version' is in the group named after the display name, and no group
\* has the empty name.
C29_AsStated ==
    gpc = "grouped" =>
        /\ \A k \in 1..Len(releases) :
              ~IsNonDefaultName(ResolvedName(k)) =>
                 \A i \in GroupsHolding(k) :
                    grouped.groups[i].name = RepoGroupName(repoName)
        /\ \A i \in 1..Len(grouped.groups) : grouped.groups[i].name # <<>>

\* C29 witness: the record tagged '-x', whose resolved name is empty, is
\* in a group with the empty name, next to the group a.
C29_Witness ==
    /\ gpc = "grouped"
    /\ Len(releases) = 2
    /\ releases[1].tag_name = <<"-", "x">>
    /\ ResolvedName(1) = <<>>
    /\ ResolvedName(2) = <<"a">>
    /\ Len(grouped.groups) = 2
    /\ grouped.groups[1].name = <<>>
    /\ GroupsHolding(1) = {1}
    /\ grouped.groups[2].name = <<"a">>

(***************************************************************************)
(* Specification SpecRetryLive: the control state of one call of           *)
(* retryWithBackoff (rpc, retries, delay), followed without a bound on     *)
(* the invocations: fn settles at each invocation and every timer started  *)
(* fires.  The errors of fn are relative to now, which is left alone, and  *)
(* no history is kept.  The retries below RetriesFloor stand for one       *)
(* another, none of them being 0, and so do the delays above DelayCeiling. *)
(***************************************************************************)
RetriesFloor == -MaxInvocations

DelayCeiling == 1000 * Pow2(MaxInvocations)

\* retries, as the model keeps it
Floored(r) == IF r < RetriesFloor THEN RetriesFloor ELSE r

\* delay, as the model keeps it
Ceiled(d) == IF d > DelayCeiling THEN DelayCeiling ELSE d

InitRetryLive == Idle

\* retryWithBackoff(fn, r, d) is called
LiveCall ==
    /\ rpc = "idle"
    /\ \E r \in RetriesArgs, d \in Delays :
          /\ retries' = r
          /\ delay' = d
          /\ args' = [retries |-> r, delay |-> d]
    /\ rpc' = "attempting"
    /\ UNCHANGED <<outcomes, sleeps, settled, now>>
    /\ UNCHANGED exceptRetry

\* fn() resolves: return await fn()
LiveAttemptSucceeds ==
    /\ rpc = "attempting"
    /\ rpc' = "succeeded"
    /\ UNCHANGED <<retries, delay, args, outcomes, sleeps, settled, now>>
    /\ UNCHANGED exceptRetry

\* fn() rejects with e: the catch block, up to the throw or the setTimeout
LiveAttemptFails ==
    /\ rpc = "attempting"
    /\ \E e \in ErrorsAt(now) :
          rpc' = IF Exhausted(retries) \/ IsNotFound(e) THEN "failed"
                 ELSE IF WaitsForReset(e, now) THEN "waitingRateLimit"
                 ELSE "waitingBackoff"
    /\ UNCHANGED <<retries, delay, args, outcomes, sleeps, settled, now>>
    /\ UNCHANGED exceptRetry

\* the rate-limit timer fires: return this.retryWithBackoff(fn, retries - 1, delay)
LiveRateLimitWaitOver ==
    /\ rpc = "waitingRateLimit"
    /\ retries' = Floored(NextRetries(retries))
    /\ rpc' = "attempting"
    /\ UNCHANGED <<delay, args, outcomes, sleeps, settled, now>>
    /\ UNCHANGED exceptRetry

\* the backoff timer fires: return this.retryWithBackoff(fn, retries - 1, delay * 2)
LiveBackoffWaitOver ==
    /\ rpc = "waitingBackoff"
    /\ retries' = Floored(NextRetries(retries))
    /\ delay' = Ceiled(NextDelay(delay))
    /\ rpc' = "attempting"
    /\ UNCHANGED <<args, outcomes, sleeps, settled, now>>
    /\ UNCHANGED exceptRetry

NextRetryLive ==
    \/ LiveCall
    \/ LiveAttemptSucceeds
    \/ LiveAttemptFails
    \/ LiveRateLimitWaitOver
    \/ LiveBackoffWaitOver

SpecRetryLive ==
    /\ InitRetryLive
    /\ [][NextRetryLive]_vars
    /\ WF_vars(LiveAttemptSucceeds \/ LiveAttemptFails)
    /\ WF_vars(LiveRateLimitWaitOver)
    /\ WF_vars(LiveBackoffWaitOver)

\* the call has settled
Terminated == rpc \in {"succeeded", "failed"}

\* C30 as stated: whatever the retries argument, a call that is attempting
\* ends as succeeded or failed.
C30_AsStated == (rpc = "attempting") ~> Terminated

\* C30 witness: called with retries = -1, fn is invoked once more after so
\* many waits that retries is at or below the floor and the delay at or
\* above the ceiling.
C30_Witness ==
    /\ rpc = "attempting"
    /\ args.retries = -1
    /\ retries = RetriesFloor
    /\ delay = DelayCeiling

====
